---- MODULE Spec2Model ----
(***************************************************************************)
(* TableJS: the view state of one table instance (table.properties behind  *)
(* its Proxy), the rows of its tbody, the request payload instance.api.data *)
(* and the remote requests in flight, driven by the handlers of the         *)
(* utilities module (toLimit, toPaginate, toSearch, toFilter, toInitialize, *)
(* toRender) and by HttpRequest.request, and the ths of its thead with the  *)
(* click listeners toSort gives them.                                       *)
(*                                                                         *)
(* Configuration modelled: options.api = {url, init: true, rendering:       *)
(* {target}}, local and api controls of every kind, each with an output    *)
(* callback (the local search and filter controls come with and without     *)
(* column 0 in their exclude option, the api search control is one input),  *)
(* and a table element that holds static rows at construction, one th for  *)
(* each of their two cells. options.sort is absent, but in SpecSort, which  *)
(* draws ascending and exclude.                                             *)
(*                                                                         *)
(* JavaScript values: numbers are the naturals plus the sentinels NaN and   *)
(* Infinity; the string "*" (DEFAULT.LIMIT) is the sentinel ALL; undefined  *)
(* is Undef. Strings are sequences of one-character strings.                *)
(***************************************************************************)
EXTENDS Integers, Sequences, FiniteSets, TLC

VARIABLES
    rows,       \* the tr elements of tbody, in document order
    props,      \* table.properties: page, limit, search, filters, total_rows
    apiData,    \* instance.api.data, the last-known payload
    inflight,   \* the requests sent and not yet answered
    issued,     \* the number of requests sent so far
    delivered,  \* the answers so far, in the order they arrived
    notes,      \* the propertiesListener calls of the last handler
    summary,    \* the paginationInfo last given to output
    err,        \* whether the last handler threw
    last,       \* the last handler run and its arguments
    previousQuery, \* previousQuery of the api search input
    fn,         \* a call of a pure function and its result
    sort,       \* table.sort: ascending and exclude
    ths,        \* the sort class each th of thead carries
    closures    \* the rows array of each toSort call whose listeners the
                \* ths carry, in the order the listeners were added

vars == <<rows, props, apiData, inflight, issued, delivered, notes, summary,
          err, last, previousQuery, fn, sort, ths, closures>>

---------------------------------------------------------------------------
(* Bounds of the model *)
MaxRows == 3
MaxTotal == 4
MaxRequests == 2
MaxLimit == 3
MaxPureRows == 12
MaxPureLimit == 7
MaxCandidate == 3
MaxCandidates == 3

---------------------------------------------------------------------------
(* JavaScript values *)
ALL == -1
NaN == -2
Undef == -3
Infinity == -4

IsNum(x) == x >= 0

JsMin(a, b) == IF a = NaN \/ b = NaN THEN NaN ELSE IF a < b THEN a ELSE b

JsMax(a, b) == IF a = NaN \/ b = NaN THEN NaN ELSE IF a > b THEN a ELSE b

(* a / b followed by Math.round; "*" and undefined convert to NaN *)
JsRoundDiv(a, b) ==
    IF ~IsNum(a) \/ ~IsNum(b) THEN NaN
    ELSE IF b = 0 THEN (IF a = 0 THEN NaN ELSE Infinity)
    ELSE (2 * a + b) \div (2 * b)

(* a / b followed by Math.ceil *)
JsCeilDiv(a, b) ==
    IF ~IsNum(a) \/ ~IsNum(b) THEN NaN
    ELSE IF b = 0 THEN (IF a = 0 THEN NaN ELSE Infinity)
    ELSE (a + b - 1) \div b

toNumber(value, fallback) ==
    IF value = 0 \/ value = NaN \/ value = Undef THEN fallback ELSE value

Truthy(x) == ~(x = 0 \/ x = NaN \/ x = Undef)

---------------------------------------------------------------------------
(* PaginationPlanner *)

Range(a, b) == [i \in 1..(b - a) |-> a + i - 1]

(* Array.from({length: Infinity}) throws a RangeError: rowLimit = 0 with
   rowLength > 0 *)
PaginationThrows(rowLength, rowLimit) ==
    JsCeilDiv(rowLength, rowLimit) = Infinity

(* createPaginationItems: the pages, each the sequence of its row indices
   (a NaN length gives no page) *)
createPaginationItems(rowLength, rowLimit) ==
    LET pageCount == JsCeilDiv(rowLength, rowLimit)
    IN  IF pageCount = Infinity \/ pageCount = NaN THEN <<>>
        ELSE [p \in 1..pageCount |->
                LET start == (p - 1) * rowLimit
                    end == IF start + rowLimit < rowLength
                           THEN start + rowLimit ELSE rowLength
                IN  Range(start, end)]

InSeq(x, s) == \E i \in 1..Len(s) : s[i] = x

(* the comparator (a, b) => a - b, its NaN taken as +0 by sort: "*" minus
   anything, and anything minus "*", is NaN *)
Compare(a, b) == IF IsNum(a) /\ IsNum(b) THEN a - b ELSE 0

(* no pair of the array is out of order for the comparator, so that no
   comparison sort, which is stable, moves any item *)
InOrder(array) ==
    \A i, j \in 1..Len(array) : i < j => Compare(array[i], array[j]) <= 0

(* the comparator is a consistent one (no "*" among the items), or the
   array is in order already: with "*" among items that differ, the
   comparator is inconsistent and the order left is implementation-defined *)
SortSpecified(array) == InOrder(array) \/ ~InSeq(ALL, array)

(* array.slice().sort((a, b) => a - b) where the order is specified *)
ArraySort(array) ==
    IF InOrder(array) THEN array
    ELSE SortSeq(array, LAMBDA a, b : a < b)

(* findIndex: the 0-based index of the first item >= number, else -1;
   "*" >= number is false *)
FindIndex(array, number) ==
    LET hits == {i \in 1..Len(array) : IsNum(array[i]) /\ array[i] >= number}
    IN  IF hits = {} THEN 0 - 1
        ELSE (CHOOSE i \in hits : \A j \in hits : i <= j) - 1

createPaginationCeiling(n, array) ==
    IF n = NaN THEN array
    ELSE LET sortedArray == ArraySort(array)
             index == FindIndex(sortedArray, n)
         IN  SubSeq(sortedArray, 1,
                    IF index # 0 - 1 THEN index + 1 ELSE Len(array))

---------------------------------------------------------------------------
(* Text: strings as sequences of characters *)

Lower(c) ==
    CASE c = "A" -> "a" [] c = "B" -> "b" [] c = "N" -> "n" [] OTHER -> c

Apple == <<"A", "p", "p", "l", "e">>
Banana == <<"B", "a", "n", "a", "n", "a">>
Ann == <<"A", "n", "n">>
On == <<"o", "n">>
Off == <<"o", "f", "f">>
An == <<"a", "n">>
No == <<"n", "o">>
Zz == <<"z", "z">>
Empty == <<>>
Space == <<" ">>

(* the value of a key that an object does not have *)
Absent == <<"undefined">>

NO_RESULT_MESSAGE ==
    <<"N", "o", " ", "m", "a", "t", "c", "h", "i", "n", "g", " ",
      "r", "e", "c", "o", "r", "d", "s", " ", "f", "o", "u", "n", "d">>

(* the flag "i": text matches kw at the 0-based position p *)
MatchAt(text, kw, p) ==
    /\ p + Len(kw) <= Len(text)
    /\ \A j \in 1..Len(kw) : Lower(text[p + j]) = Lower(kw[j])

Contains(text, kw) == \E p \in 0..Len(text) : MatchAt(text, kw, p)

(* RegExp.prototype.test of a pattern with the flag "g": the search starts
   at lastIndex, a match leaves lastIndex at its end, a failure resets it *)
RegExpTest(text, kw, lastIndex) ==
    LET hits == {p \in lastIndex..Len(text) : MatchAt(text, kw, p)}
    IN  IF hits = {} THEN [found |-> FALSE, lastIndex |-> 0]
        ELSE LET p == CHOOSE q \in hits : \A r \in hits : q <= r
             IN  [found |-> TRUE, lastIndex |-> p + Len(kw)]

RECURSIVE Join(_, _)
Join(texts, sep) ==
    IF Len(texts) = 0 THEN <<>>
    ELSE IF Len(texts) = 1 THEN texts[1]
    ELSE texts[1] \o sep \o Join(Tail(texts), sep)

(* String.prototype.trim *)
RECURSIVE Trim(_)
Trim(text) ==
    IF text = <<>> THEN text
    ELSE IF Head(text) = " " THEN Trim(Tail(text))
    ELSE IF text[Len(text)] = " " THEN Trim(SubSeq(text, 1, Len(text) - 1))
    ELSE text

(* String(undefined), what localeCompare makes of an undefined argument *)
Undefined == <<"u", "n", "d", "e", "f", "i", "n", "e", "d">>

(* the order of the characters under sensitivity "base": the space, the
   digits, the letters, a capital together with its small letter *)
Alphabet ==
    <<" ", "0", "1", "2", "3", "4", "5", "6", "7", "8", "9",
      "a", "b", "c", "d", "e", "f", "g", "h", "i", "j", "k", "l", "m",
      "n", "o", "p", "q", "r", "s", "t", "u", "v", "w", "x", "y", "z">>

Rank(c) == CHOOSE i \in 1..Len(Alphabet) : Alphabet[i] = Lower(c)

IsDigit(c) == Rank(c) \in 2..11

(* the number a run of digits at the head of text stands for, and the
   length of the run *)
RECURSIVE DigitRun(_, _)
DigitRun(text, acc) ==
    IF text = <<>> \/ ~IsDigit(Head(text)) THEN acc
    ELSE DigitRun(Tail(text),
                  [value |-> 10 * acc.value + (Rank(Head(text)) - 2),
                   length |-> acc.length + 1])

(* a.localeCompare(b, undefined, {numeric: true, sensitivity: "base"}):
   negative, zero or positive; runs of digits compare by their value *)
RECURSIVE localeCompare(_, _)
localeCompare(a, b) ==
    IF a = <<>> /\ b = <<>> THEN 0
    ELSE IF a = <<>> THEN 0 - 1
    ELSE IF b = <<>> THEN 1
    ELSE IF IsDigit(Head(a)) /\ IsDigit(Head(b))
    THEN LET ra == DigitRun(a, [value |-> 0, length |-> 0])
             rb == DigitRun(b, [value |-> 0, length |-> 0])
         IN  IF ra.value < rb.value THEN 0 - 1
             ELSE IF ra.value > rb.value THEN 1
             ELSE localeCompare(SubSeq(a, ra.length + 1, Len(a)),
                                SubSeq(b, rb.length + 1, Len(b)))
    ELSE IF Rank(Head(a)) < Rank(Head(b)) THEN 0 - 1
    ELSE IF Rank(Head(a)) > Rank(Head(b)) THEN 1
    ELSE localeCompare(Tail(a), Tail(b))

---------------------------------------------------------------------------
(* Rows, the store and the payload *)

(* a tr of tbody: row.index, the text of its cells, the class
   tjs-row-visible (against tjs-row-hidden), the class tjs-row-dummy, and
   the request whose response rendered it (0: the static table) *)
Row(i, cells, src) ==
    [index |-> i, cells |-> cells, visible |-> TRUE, dummy |-> FALSE, src |-> src]

dummyRow == [index |-> Undef, cells |-> <<NO_RESULT_MESSAGE>>, visible |-> TRUE,
             dummy |-> TRUE, src |-> 0]

Pool == << <<Banana, Off>>, <<Ann, On>>, <<Apple, On>> >>

DataRows(rs) == SelectSeq(rs, LAMBDA r : ~r.dummy)

HasDummy(rs) == \E i \in 1..Len(rs) : rs[i].dummy

(* previousValue !== value of the Proxy set trap of table.properties. For
   the filters object this compares references: ref is 0 for the object
   the store holds and 1 for any other object *)
StrictEquals(property, a, b) ==
    IF property = "filters" THEN a.ref = b.ref ELSE a = b

Stored(property, value) ==
    IF property = "filters" THEN [value EXCEPT !.ref = 0] ELSE value

Set(w, property, value) ==
    IF StrictEquals(property, w.props[property], value) THEN w
    ELSE LET committed == [w.props EXCEPT ![property] = Stored(property, value)]
         IN  [w EXCEPT !.props = committed,
                       !.notes = Append(@, [property |-> property,
                                            props |-> committed])]

Throw(w) == [w EXCEPT !.err = TRUE]

---------------------------------------------------------------------------
(* instance.api.data: the names of its fields and their values (a field
   that is absent keeps a neutral value) *)
NoData == [fields |-> {}, page |-> 0, limit |-> 0, search |-> <<>>]

PutField(d, name, value) ==
    [d EXCEPT !.fields = @ \cup {name}, ![name] = value]

DeleteField(d, name) ==
    [d EXCEPT !.fields = @ \ {name},
              ![name] = IF name = "search" THEN <<>> ELSE 0]

processPagination(data, total_rows) ==
    LET limit == IF "limit" \in data.fields THEN data.limit ELSE ALL
        page == IF "page" \in data.fields THEN data.page ELSE 1
        clamped == toNumber(
            JsMin(JsMax(1, page), JsRoundDiv(total_rows, limit)), 1)
    IN  PutField(PutField(data, "limit", limit), "page", clamped)

---------------------------------------------------------------------------
(* toSort *)

(* the cellIndex of the ths of thead: one for each cell of a row *)
Columns == 0..(Len(Pool[1]) - 1)

(* no th carries CLASS.SORT.ASCENDING or CLASS.SORT.DESCENDING *)
NoClass == [c \in Columns |-> "NONE"]

(* what a rows array of toSort holds of a tr; gone: the tr was removed
   from tbody since; numbered: its row.index is a number *)
Ref(row) ==
    [index |-> row.index, cells |-> row.cells, dummy |-> row.dummy,
     src |-> row.src, gone |-> FALSE, numbered |-> ~row.dummy]

(* the tr of tbody and the tr of a rows array are one element *)
SameElement(row, e) ==
    /\ ~e.gone
    /\ row.dummy = e.dummy
    /\ row.dummy \/ (row.src = e.src /\ row.index = e.index)

(* toSort with to = "local" and sorting = true: rows is every tr of the
   table but the first, the header row; every th that exclude does not
   name gets one more click listener, which keeps rows, ascending and
   exclude. The classes of the ths are left as they are *)
toSort(w) ==
    [w EXCEPT !.closures =
        Append(@, [rows |-> [i \in 1..Len(w.rows) |-> Ref(w.rows[i])],
                   ascending |-> w.sort.ascending,
                   exclude |-> w.sort.exclude])]

(* the dummy row leaves tbody by remove(); the rows arrays that hold it
   keep it, with the row.index it has by then: undefined, or the number
   applyLimitation gave it *)
Removed(arrays, index) ==
    [k \in 1..Len(arrays) |->
        [arrays[k] EXCEPT !.rows =
            [i \in 1..Len(arrays[k].rows) |->
                LET e == arrays[k].rows[i]
                IN  IF e.dummy /\ ~e.gone
                    THEN [e EXCEPT !.gone = TRUE,
                                   !.numbered = index # Undef,
                                   !.index = IF index = Undef THEN 0 ELSE index]
                    ELSE e]]]

(* a.children[columnIndex]?.textContent.trim() *)
TextContent(e, columnIndex) ==
    IF columnIndex < Len(e.cells) THEN Trim(e.cells[columnIndex + 1])
    ELSE Absent

(* the comparator of the sort by a column: undefined when a has no such
   cell, which sort takes for +0 *)
ByColumn(a, b, columnIndex, currentSort) ==
    LET aValue == TextContent(a, columnIndex)
        bValue == TextContent(b, columnIndex)
        comparison == localeCompare(aValue, IF bValue = Absent THEN Undefined
                                            ELSE bValue)
    IN  IF aValue = Absent THEN 0
        ELSE IF currentSort THEN comparison ELSE 0 - comparison

(* a.index - b.index, NaN taken for +0 *)
ByIndex(a, b) == IF a.numbered /\ b.numbered THEN a.index - b.index ELSE 0

Orders(n) ==
    {p \in [1..n -> 1..n] : \A i, j \in 1..n : i # j => p[i] # p[j]}

(* the stable order of the positions 1..n under a consistent comparator:
   each position goes behind the ones that do not compare greater *)
RECURSIVE StableOrder(_, _)
StableOrder(cmp, n) ==
    IF n = 0 THEN <<>>
    ELSE LET p == StableOrder(cmp, n - 1)
             k == Cardinality({i \in 1..Len(p) : cmp[p[i]][n] <= 0})
         IN  SubSeq(p, 1, k) \o <<n>> \o SubSeq(p, k + 1, Len(p))

(* Array.prototype.sort, cmp[i][j] being the comparator's value on the
   items at i and j and total telling that it had a number or a string to
   compare on every item, which makes it consistent: stable under a
   consistent comparator, any order (implementation-defined) under an
   inconsistent one *)
ArraySortBy(array, cmp, total) ==
    LET n == Len(array)
        consistent ==
            \/ total
            \/ /\ \A i, j \in 1..n : (cmp[i][j] < 0) = (cmp[j][i] > 0)
               /\ \A i, j, k \in 1..n :
                     cmp[i][j] <= 0 /\ cmp[j][k] <= 0 => cmp[i][k] <= 0
    IN  {[i \in 1..n |-> array[p[i]]] :
            p \in IF consistent THEN {StableOrder(cmp, n)} ELSE Orders(n)}

(* the weaker forEach that shows every row it appends;
   C39_SortChangesOrderAlone tells it from the forEach of the source *)
RECURSIVE ReappendShown(_, _)
ReappendShown(tbody, sorted) ==
    IF sorted = <<>> THEN [rows |-> tbody, threw |-> FALSE]
    ELSE LET at == {i \in 1..Len(tbody) : SameElement(tbody[i], Head(sorted))}
         IN  IF at = {} THEN [rows |-> tbody, threw |-> TRUE]
             ELSE LET i == CHOOSE j \in at : TRUE
                  IN  ReappendShown(SubSeq(tbody, 1, i - 1)
                                  \o SubSeq(tbody, i + 1, Len(tbody))
                                  \o <<[tbody[i] EXCEPT !.visible = TRUE]>>,
                               Tail(sorted))

(* forEach of a click listener: each row of the sorted array is removed
   from tbody and appended to it; removeChild throws on the first row that
   is no child of tbody *)
RECURSIVE Reappend(_, _)
Reappend(tbody, sorted) ==
    IF sorted = <<>> THEN [rows |-> tbody, threw |-> FALSE]
    ELSE LET at == {i \in 1..Len(tbody) : SameElement(tbody[i], Head(sorted))}
         IN  IF at = {} THEN [rows |-> tbody, threw |-> TRUE]
             ELSE LET i == CHOOSE j \in at : TRUE
                  IN  Reappend(SubSeq(tbody, 1, i - 1)
                                  \o SubSeq(tbody, i + 1, Len(tbody))
                                  \o <<tbody[i]>>,
                               Tail(sorted))

(* the weaker update that leaves the classes of the other ths alone;
   C16_OneActiveMarker tells it from the update of the source *)
SortClassesOfTarget(classes, columnIndex, descending, currentSort) ==
    [classes EXCEPT ![columnIndex] =
        IF descending THEN "NONE"
        ELSE IF currentSort THEN "ASCENDING" ELSE "DESCENDING"]

(* the classes after a listener ran to its end: the target loses
   DESCENDING, or every th loses both classes and the target gets one *)
SortClasses(classes, columnIndex, descending, currentSort) ==
    IF descending THEN [classes EXCEPT ![columnIndex] = "NONE"]
    ELSE [c \in Columns |->
            IF c # columnIndex THEN "NONE"
            ELSE IF currentSort THEN "ASCENDING" ELSE "DESCENDING"]

(* the click listener that the k-th toSort call gave to the th at
   columnIndex, on the table s: the outcomes sort allows. The listener
   sorts its own rows array in place; an exception ends it before it
   touches the classes *)
Listener(s, k, columnIndex) ==
    LET closure == s.closures[k]
        n == Len(closure.rows)
        descending == s.ths[columnIndex] = "DESCENDING"
        currentSort == IF s.ths[columnIndex] = "ASCENDING"
                       THEN ~closure.ascending ELSE closure.ascending
        total == \A i \in 1..n :
                    IF descending THEN closure.rows[i].numbered
                    ELSE TextContent(closure.rows[i], columnIndex) # Absent
        cmp == [i \in 1..n |-> [j \in 1..n |->
                  IF descending
                  THEN ByIndex(closure.rows[i], closure.rows[j])
                  ELSE ByColumn(closure.rows[i], closure.rows[j],
                                columnIndex, currentSort)]]
    IN  {LET moved == Reappend(s.rows, sorted)
         IN  [s EXCEPT
                !.rows = moved.rows,
                !.closures = [s.closures EXCEPT ![k].rows = sorted],
                !.err = s.err \/ moved.threw,
                !.ths = IF moved.threw THEN s.ths
                        ELSE SortClasses(s.ths, columnIndex, descending,
                                         currentSort)]
           : sorted \in ArraySortBy(closure.rows, cmp, total)}

(* a click on the th at columnIndex: its listeners run in the order they
   were added, from the k-th on *)
RECURSIVE Dispatch(_, _, _)
Dispatch(s, k, columnIndex) ==
    IF k > Len(s.closures) THEN {s}
    ELSE IF columnIndex \in s.closures[k].exclude
    THEN Dispatch(s, k + 1, columnIndex)
    ELSE UNION {Dispatch(t, k + 1, columnIndex) :
                   t \in Listener(s, k, columnIndex)}

(* preInitialize: toSort; the listeners it gives to the controls are the
   actions of the state machine *)
preInitialize(w) == toSort(w)

(* HttpRequest.request as called by toInitialize when api.url is set and
   render is given: beforeSend runs preInitialize; the query is serialized
   from instance.api.data when the request is built; at is the store at
   that moment *)
toInitialize(w) ==
    [preInitialize(w) EXCEPT
        !.sent = Append(@, [query |-> w.apiData, at |-> w.props])]

---------------------------------------------------------------------------
(* toLimit *)

LimitCount(limit, rowLength) ==
    IF limit = ALL THEN rowLength
    ELSE IF limit >= rowLength THEN rowLength ELSE limit

PageItems(pagination, page) ==
    IF page >= 1 /\ page <= Len(pagination) THEN pagination[page] ELSE <<>>

PaginationInfo(currentPage, totalPage, items, totalLength) ==
    [current_page |-> toNumber(currentPage, 0),
     total_page |-> toNumber(totalPage, 0),
     start_item |-> IF Len(items) = 0 THEN 0 ELSE items[1] + 1,
     end_item |-> IF Len(items) = 0 THEN 0 ELSE items[Len(items)] + 1,
     total_rows |-> toNumber(totalLength, 0)]

applyLimitation(w, limitSize, pagingLength) ==
    LET rowLength == Len(w.rows)
        limitCount == LimitCount(limitSize, rowLength)
        totalLength == IF w.props.total_rows = Undef THEN rowLength
                       ELSE w.props.total_rows
        pagination == createPaginationItems(totalLength, limitCount)
        paginationLength == toNumber(pagingLength, Len(pagination))
        currentPage == JsMin(JsMax(1, w.props.page), paginationLength)
        w1 == Set(w, "page", currentPage)
        paginationItems == PageItems(pagination, currentPage)
        offset == (currentPage - 1) * limitCount
        kept == DataRows(w.rows)
        dummy == CHOOSE i \in 1..Len(w.rows) : w.rows[i].dummy
    IN  IF PaginationThrows(totalLength, limitCount) THEN Throw(w)
        ELSE [w1 EXCEPT
                !.summary = PaginationInfo(currentPage, paginationLength,
                                           paginationItems, totalLength),
                !.closures = IF ~HasDummy(w.rows) THEN @
                             ELSE IF IsNum(currentPage)
                             THEN Removed(@, dummy - 1 + offset)
                             ELSE Removed(@, Undef),
                !.rows = [i \in 1..Len(kept) |->
                            [kept[i] EXCEPT !.visible =
                                InSeq(kept[i].index, paginationItems)]]]

LimitPage(limitSize, page, currentPage) ==
    IF limitSize = ALL THEN 1
    ELSE IF currentPage = NaN THEN page ELSE currentPage

(* the api case with the new payload: under DEFAULT.LIMIT the page of the
   store is DEFAULT.PAGE and the payload loses its page *)
LimitDefault(w, data, limitSize) ==
    IF limitSize = ALL
    THEN [Set(w, "page", 1) EXCEPT !.apiData = DeleteField(data, "page")]
    ELSE [w EXCEPT !.apiData = data]

toLimit(w, limitSize, to) ==
    LET pagingLength == JsRoundDiv(w.props.total_rows, limitSize)
        currentPage == JsMin(JsMax(1, w.props.page), pagingLength)
        w1 == Set(w, "limit", limitSize)
        w2 == Set(w1, "page", LimitPage(limitSize, w1.props.page, currentPage))
        data == DeleteField(
            processPagination(
                PutField(PutField(w2.apiData, "page", toNumber(w2.props.page, 1)),
                         "limit", w2.props.limit),
                w2.props.total_rows),
            "search")
        w3 == LimitDefault(w2, data, limitSize)
    IN  IF to = "local" THEN applyLimitation(w2, limitSize, pagingLength)
        ELSE applyLimitation(toInitialize(w3), limitSize, pagingLength)

(* the weaker postInitialize that gives the api limit control its own
   target; C40_OutcomeSendsNothing tells it from the postInitialize of the
   source *)
postInitializeApi(w) ==
    LET w1 == toLimit(toSort(w), w.props.limit, "local")
    IN  IF w1.err THEN w1 ELSE toLimit(w1, w1.props.limit, "api")

(* postInitialize: toLimit with to = "local" and the store's limit, once
   for the local limit control and once for the api limit control *)
postInitialize(w) ==
    LET w1 == toLimit(toSort(w), w.props.limit, "local")
    IN  IF w1.err THEN w1 ELSE toLimit(w1, w1.props.limit, "local")

---------------------------------------------------------------------------
(* toPaginate *)

PaginateTarget(as, page, paginationLength) ==
    IF as = "next"
    THEN (IF page > 0 /\ paginationLength # NaN /\ page < paginationLength
          THEN JsMin(page + 1, paginationLength) ELSE page)
    ELSE (IF page > 0 /\ paginationLength # NaN /\ page <= paginationLength
          THEN JsMax(1, page - 1) ELSE page)

(* the payload of the api case, search left in it *)
PaginateDataKeepsSearch(w) ==
    processPagination(
        PutField(PutField(w.apiData, "page", toNumber(w.props.page, 1)),
                 "limit", w.props.limit),
        w.props.total_rows)

(* the payload of the api case: the page and the limit of the store through
   processPagination, search deleted *)
PaginateData(w) ==
    DeleteField(
        processPagination(
            PutField(PutField(w.apiData, "page", toNumber(w.props.page, 1)),
                     "limit", w.props.limit),
            w.props.total_rows),
        "search")

toPaginate(w, as, to) ==
    LET rowLength == Len(w.rows)
        limit == w.props.limit
        page == w.props.page
        totalLength == IF w.props.total_rows = Undef THEN rowLength
                       ELSE w.props.total_rows
        w1 == Set(w, "search", <<>>)
        limitCount == LimitCount(limit, rowLength)
        pagingLength == JsRoundDiv(w.props.total_rows, limitCount)
        pagination == createPaginationItems(totalLength, limitCount)
        paginationLength == IF Truthy(pagingLength) THEN pagingLength
                            ELSE Len(pagination)
        w2 == Set(w1, "page", PaginateTarget(as, page, paginationLength))
        defined == w2.props.page >= 1 /\ w2.props.page <= Len(pagination)
        paginationItems == PageItems(pagination, w2.props.page)
        w3 == [w2 EXCEPT !.summary =
                 PaginationInfo(w2.props.page, paginationLength,
                                paginationItems, totalLength)]
        data == PaginateData(w3)
    IN  IF PaginationThrows(totalLength, limitCount) THEN Throw(w1)
        ELSE IF ~defined THEN Throw(w2)
        ELSE IF to = "local"
        THEN [w3 EXCEPT !.rows = [i \in 1..Len(w.rows) |->
                [w.rows[i] EXCEPT !.visible =
                    InSeq(w.rows[i].index, paginationItems) \/ limit = ALL]]]
        ELSE toInitialize([w3 EXCEPT !.apiData = data])

---------------------------------------------------------------------------
(* toSearch and toFilter *)

(* the text of the cells whose cellIndex is not excluded *)
TextContents(row, exclude) ==
    LET keep == {i \in 1..Len(row.cells) : (i - 1) \notin exclude}
        nth(k) == CHOOSE i \in keep : Cardinality({j \in keep : j < i}) = k - 1
    IN  [k \in 1..Cardinality(keep) |-> row.cells[nth(k)]]

(* rows.reduce of toSearch over the first n rows: one RegExp object, with
   its lastIndex, tests the joined text of every tr of tbody in turn *)
RECURSIVE SearchReduce(_, _, _, _)
SearchReduce(rs, keyword, exclude, n) ==
    IF n = 0 THEN [rows |-> <<>>, searched |-> 0, lastIndex |-> 0]
    ELSE LET acc == SearchReduce(rs, keyword, exclude, n - 1)
             string == Join(TextContents(rs[n], exclude), Space)
             t == RegExpTest(string, keyword, acc.lastIndex)
             isSearched == t.found
             isDummy == rs[n].dummy
         IN  [rows |-> Append(acc.rows,
                        [rs[n] EXCEPT !.visible = isSearched \/ isDummy]),
              searched |-> IF isSearched THEN acc.searched + 1 ELSE acc.searched,
              lastIndex |-> t.lastIndex]

(* the lines after the reduce, shared by toSearch and toFilter: the dummy
   row is appended or removed and paginationInfo is given to output *)
SearchOutcome(w, reduced, result) ==
    LET rowLength == Len(w.rows)
        dum == HasDummy(w.rows)
        after == IF result < 1
                 THEN (IF dum THEN reduced ELSE Append(reduced, dummyRow))
                 ELSE DataRows(reduced)
    IN  [w EXCEPT !.rows = after,
                  !.closures = IF dum /\ result >= 1 THEN Removed(@, Undef)
                               ELSE @,
                  !.summary =
                     [current_page |-> 1, total_page |-> 1,
                      start_item |-> toNumber(JsMin(result, 1), 0),
                      end_item |-> toNumber(
                          IF dum THEN JsMax(0, result - 1) ELSE result, 0),
                      total_rows |-> toNumber(
                          IF dum THEN rowLength - 1 ELSE rowLength, 0)]]

(* the weaker payload that keeps the page it held;
   C21_SearchPayload tells it from the payload of the source *)
SearchDataKeepsPage(data, keyword) ==
    DeleteField(IF keyword = <<>> THEN DeleteField(data, "search")
                ELSE PutField(data, "search", keyword),
                "limit")

(* instance.api.data after the api case of toSearch: search is the
   keyword, limit and page are deleted, and so is an empty search *)
SearchData(data, keyword) ==
    DeleteField(DeleteField(
        IF keyword = <<>> THEN DeleteField(data, "search")
        ELSE PutField(data, "search", keyword),
        "limit"), "page")

toSearch(w, keyword, exclude, to) ==
    LET w1 == Set(Set(Set(w, "search", keyword), "limit", ALL), "page", 1)
        reduced == SearchReduce(w.rows, keyword, exclude, Len(w.rows))
        data == SearchData(w1.apiData, keyword)
    IN  IF to = "local" THEN SearchOutcome(w1, reduced.rows, reduced.searched)
        ELSE toInitialize([w1 EXCEPT !.apiData = data])

(* Object.values(filters).filter(Boolean): the non-empty values of the
   keys the object has *)
SearchPatterns(filters) ==
    {filters.map[f] : f \in {g \in DOMAIN filters.map :
                                filters.map[g] # Absent /\ filters.map[g] # <<>>}}

(* the weaker test that lets a row through as soon as one pattern is found
   in it; C9_FilterAndOfOrs tells it from the every of the source *)
FilterSearchedSome(row, patterns, exclude) ==
    LET textContents == TextContents(row, exclude)
    IN  patterns = {} \/
        \E pattern \in patterns :
            \E i \in 1..Len(textContents) : Contains(textContents[i], pattern)

(* a fresh RegExp is built for every test, so no lastIndex is carried *)
FilterSearched(row, patterns, exclude) ==
    LET textContents == TextContents(row, exclude)
    IN  \A pattern \in patterns :
            \E i \in 1..Len(textContents) : Contains(textContents[i], pattern)

toFilter(w, filters, exclude, to) ==
    LET w1 == Set(w, "filters", filters)
        patterns == SearchPatterns(filters)
        reduced == [i \in 1..Len(w.rows) |->
            [w.rows[i] EXCEPT !.visible =
                FilterSearched(w.rows[i], patterns, exclude) \/ w.rows[i].dummy]]
        result == Cardinality({i \in 1..Len(w.rows) :
                     FilterSearched(w.rows[i], patterns, exclude)})
    IN  IF to = "local" THEN SearchOutcome(w1, reduced, result)
        ELSE w1

---------------------------------------------------------------------------
(* toRender and the callbacks toInitialize gives to HttpRequest *)

(* the tr elements toRender builds from the array of a response: row.index
   is the position in that array; no visibility class is set yet *)
RenderedRows(n, id) ==
    [i \in 1..n |-> Row(i - 1, Pool[((i - 1) % Len(Pool)) + 1], id)]

(* data.length < 1 returns before table.innerHTML is cleared; clearing it
   takes the ths away, with their classes and listeners, and new ths are
   built *)
toRender(w, n, id) ==
    IF n < 1 THEN w
    ELSE [w EXCEPT !.rows = RenderedRows(n, id), !.ths = NoClass,
                   !.closures = <<>>]

(* success with api.rendering = {target}: total_rows || renderData.length
   goes to the store, then toRender; afterSend runs postInitialize *)
success(w, n, total, id) ==
    LET w1 == Set(w, "total_rows", IF Truthy(total) THEN total ELSE n)
    IN  postInitialize(toRender(w1, n, id))

(* error throws inside the catch handler; afterSend still runs *)
error(w) == postInitialize(w)

(* what a paging server answers to a query: n rows and the total it
   reports (0: no total_rows field), never more rows than the total or
   than a numeric limit of the query *)
ServerResponse(query, n, total) ==
    /\ total > 0 => n <= total
    /\ ("limit" \in query.fields /\ query.limit # ALL) => n <= query.limit
    /\ ("limit" \in query.fields /\ query.limit = ALL /\ total > 0) => n = total

---------------------------------------------------------------------------
(* The state machine *)

FilterFields == {"name", "status"}
Keywords == {Empty, An, No, Zz}
FilterInputs == {<<"name", Empty>>, <<"name", On>>, <<"status", An>>}
ExcludeSets == {{}, {0}}
Limits == {ALL} \cup (2..MaxLimit)

NoFilters == [ref |-> 0, map |-> [f \in FilterFields |-> Absent]]

NoSummary == [current_page |-> 0, total_page |-> 0, start_item |-> 0,
              end_item |-> 0, total_rows |-> 0]

World == [rows |-> rows, props |-> props, apiData |-> apiData,
          notes |-> <<>>, summary |-> summary, err |-> FALSE, sent |-> <<>>,
          sort |-> sort, ths |-> ths, closures |-> closures]

(* the store as the constructor's Object.assign leaves it *)
DefaultProps == [page |-> 1, limit |-> ALL, search |-> <<>>,
                 filters |-> NoFilters, total_rows |-> Undef]

(* last: the handler, its target and arguments; hadDummy: a dummy row was
   in tbody when it started; req: the request it sent or answered; same:
   the filters object given was shallow-equal to the stored one; pre: for
   an answer, the store as it was before the request's action started;
   valid: every argument the handler validates passed *)
NoLast == [op |-> "init", to |-> "local", keyword |-> <<>>, exclude |-> {},
           limit |-> ALL, as |-> "next", hadDummy |-> FALSE, req |-> 0,
           same |-> FALSE, pre |-> DefaultProps, column |-> 0, valid |-> TRUE]

(* the static tables: up to MaxRows distinct rows of Pool in any order *)
StaticTables ==
    {t \in UNION {[1..n -> 1..Len(Pool)] : n \in 0..MaxRows} :
        \A i, j \in DOMAIN t : i # j => t[i] # t[j]}

(* table.sort when options.sort is not given, and the options.sort of the
   tables that are sorted *)
DefaultSort == [ascending |-> TRUE, exclude |-> {}]

SortOptions == [ascending : BOOLEAN, exclude : {{}, {1}}]

(* the constructor: rows get row.index by position, the store gets its
   defaults, table.sort is options.sort, and toInitialize (api.init set, no
   render) runs preInitialize and postInitialize without a request *)
Constructed(t, options) ==
    postInitialize(preInitialize(
        [rows |-> [i \in DOMAIN t |-> Row(i - 1, Pool[t[i]], 0)],
         props |-> DefaultProps,
         apiData |-> NoData, notes |-> <<>>, summary |-> NoSummary,
         err |-> FALSE, sent |-> <<>>,
         sort |-> options, ths |-> NoClass, closures |-> <<>>]))

NoCall == [op |-> "none", rowLength |-> 0, limit |-> 0, pages |-> <<>>,
           n |-> 0, array |-> <<>>, result |-> <<>>]

(* a new instance on the static table t with options.sort = options *)
Instance(t, options) ==
    LET w == Constructed(t, options)
    IN  /\ rows = w.rows
        /\ props = w.props
        /\ apiData = w.apiData
        /\ summary = w.summary
        /\ notes = w.notes
        /\ err = w.err
        /\ sort = w.sort
        /\ ths = w.ths
        /\ closures = w.closures

Init ==
    /\ \E t \in StaticTables : Instance(t, DefaultSort)
    /\ inflight = {}
    /\ issued = 0
    /\ delivered = <<>>
    /\ last = NoLast
    /\ previousQuery = Absent
    /\ fn = NoCall

Apply(w) ==
    /\ rows' = w.rows
    /\ props' = w.props
    /\ apiData' = w.apiData
    /\ summary' = w.summary
    /\ notes' = w.notes
    /\ err' = w.err
    /\ ths' = w.ths
    /\ closures' = w.closures
    /\ UNCHANGED sort

(* the handler's effects on the table, and the request it sent if any *)
Sent(w, l) ==
    /\ Apply(w)
    /\ last' = [l EXCEPT !.hadDummy = HasDummy(rows), !.req = issued + Len(w.sent)]
    /\ issued' = issued + Len(w.sent)
    /\ inflight' = inflight \cup
          {[id |-> issued + i, query |-> w.sent[i].query, pre |-> props,
            at |-> w.sent[i].at, op |-> l.op]
             : i \in 1..Len(w.sent)}
    /\ UNCHANGED <<delivered, fn>>

Commit(w, l) == Sent(w, l) /\ UNCHANGED previousQuery

LocalLimit(limitSize) ==
    Commit(toLimit(World, limitSize, "local"),
           [NoLast EXCEPT !.op = "limit", !.limit = limitSize])

LocalPaginate(as) ==
    Commit(toPaginate(World, as, "local"),
           [NoLast EXCEPT !.op = "paginate", !.as = as])

(* toSearch run by every listener of the event, one after the other *)
RECURSIVE Listeners(_, _, _, _)
Listeners(w, keyword, exclude, n) ==
    IF n = 0 THEN w
    ELSE toSearch(Listeners(w, keyword, exclude, n - 1), keyword, exclude,
                  "local")

(* the local search input. Emptying it fires the one input listener, which
   searches for DEFAULT.SEARCH. Enter fires the keypress listeners: each
   preInitialize adds one more, because the flag it tests is set on the
   element and tested on the array, and each of them passes the test
   against el.previousQuery, which Enter never writes *)
LocalSearch(keyword, exclude) ==
    Commit(Listeners(World, keyword, exclude,
                     IF keyword = <<>> THEN 1 ELSE 1 + issued),
           [NoLast EXCEPT !.op = "search", !.keyword = keyword,
                          !.exclude = exclude])

(* the change handler of a filter control: a new object, the store's
   filters with the control's key set to its value *)
LocalFilter(field, value, exclude) ==
    LET filters == [ref |-> 1,
                    map |-> [props.filters.map EXCEPT ![field] = value]]
    IN  Commit(toFilter(World, filters, exclude, "local"),
               [NoLast EXCEPT !.op = "filter", !.exclude = exclude,
                              !.same = (filters.map = props.filters.map)])

ApiLimit(limitSize) ==
    /\ issued < MaxRequests
    /\ Commit(toLimit(World, limitSize, "api"),
              [NoLast EXCEPT !.op = "limit", !.to = "api", !.limit = limitSize])

ApiPaginate(as) ==
    /\ issued < MaxRequests
    /\ Commit(toPaginate(World, as, "api"),
              [NoLast EXCEPT !.op = "paginate", !.to = "api", !.as = as])

(* the api search input: Enter with a value other than previousQuery, or
   the input emptied, which searches for DEFAULT.SEARCH *)
ApiSearch(keyword) ==
    /\ issued < MaxRequests
    /\ keyword = <<>> \/ previousQuery # keyword
    /\ Sent(toSearch(World, keyword, {}, "api"),
            [NoLast EXCEPT !.op = "search", !.to = "api", !.keyword = keyword])
    /\ previousQuery' = keyword

(* toFilter called with to = "api" and a new filters object; preInitialize
   gives the filter controls of paginate.api no listener, so the call is
   the caller's own *)
ApiFilter(field, value) ==
    LET filters == [ref |-> 1,
                    map |-> [props.filters.map EXCEPT ![field] = value]]
    IN  Commit(toFilter(World, filters, {}, "api"),
               [NoLast EXCEPT !.op = "filter", !.to = "api",
                              !.same = (filters.map = props.filters.map)])

(* the requests the callbacks of a request sent while they ran *)
Cascade(w, op) ==
    {[id |-> issued + i, query |-> w.sent[i].query, pre |-> props,
      at |-> w.sent[i].at, op |-> op] : i \in 1..Len(w.sent)}

(* a response arrives: success, then afterSend *)
Respond(r, n, total) ==
    LET w == success(World, n, total, r.id)
    IN  /\ r \in inflight
        /\ ServerResponse(r.query, n, total)
        /\ Apply(w)
        /\ issued' = issued + Len(w.sent)
        /\ last' = [NoLast EXCEPT !.op = "success", !.to = "api",
                                  !.req = r.id, !.hadDummy = HasDummy(rows),
                                  !.pre = r.pre]
        /\ inflight' = (inflight \ {r}) \cup Cascade(w, "success")
        /\ delivered' = Append(delivered,
              [id |-> r.id, ok |-> TRUE, n |-> n,
               total_rows |-> IF Truthy(total) THEN total ELSE n])
        /\ UNCHANGED <<previousQuery, fn>>

(* a network error or the timeout: error, then afterSend *)
Fail(r) ==
    LET w == error(World)
    IN  /\ r \in inflight
        /\ Apply(w)
        /\ issued' = issued + Len(w.sent)
        /\ last' = [NoLast EXCEPT !.op = "error", !.to = "api", !.req = r.id,
                                  !.hadDummy = HasDummy(rows), !.pre = r.pre]
        /\ inflight' = (inflight \ {r}) \cup Cascade(w, "error")
        /\ delivered' = Append(delivered,
              [id |-> r.id, ok |-> FALSE, n |-> 0, total_rows |-> 0])
        /\ UNCHANGED <<previousQuery, fn>>

(* a click on the th at columnIndex: every click listener the th carries
   runs; an exception in one does not keep the next from running *)
Click(columnIndex) ==
    \E s \in Dispatch(World, 1, columnIndex) :
        /\ Apply(s)
        /\ last' = [NoLast EXCEPT !.op = "sort", !.column = columnIndex,
                                  !.hadDummy = HasDummy(rows)]
        /\ UNCHANGED <<inflight, issued, delivered, previousQuery, fn>>

Next ==
    \/ \E columnIndex \in Columns : Click(columnIndex)
    \/ \E limitSize \in Limits : LocalLimit(limitSize)
    \/ \E as \in {"next", "previous"} : LocalPaginate(as)
    \/ \E keyword \in Keywords, exclude \in ExcludeSets :
          LocalSearch(keyword, exclude)
    \/ \E input \in FilterInputs, exclude \in ExcludeSets :
          LocalFilter(input[1], input[2], exclude)
    \/ \E limitSize \in Limits : ApiLimit(limitSize)
    \/ \E as \in {"next", "previous"} : ApiPaginate(as)
    \/ \E keyword \in Keywords : ApiSearch(keyword)
    \/ \E input \in FilterInputs : ApiFilter(input[1], input[2])
    \/ \E r \in inflight, n \in 0..MaxRows, total \in 0..MaxTotal :
          Respond(r, n, total)
    \/ \E r \in inflight : Fail(r)

Spec == Init /\ [][Next]_vars

(* the local controls alone *)
NextLocal ==
    \/ \E limitSize \in Limits : LocalLimit(limitSize)
    \/ \E as \in {"next", "previous"} : LocalPaginate(as)
    \/ \E keyword \in Keywords, exclude \in ExcludeSets :
          LocalSearch(keyword, exclude)
    \/ \E input \in FilterInputs, exclude \in ExcludeSets :
          LocalFilter(input[1], input[2], exclude)

SpecLocal == Init /\ [][NextLocal]_vars

(* the api controls and the answers to their requests, on a static table
   whose rows are in Pool order *)
InitRemote ==
    /\ Init
    /\ \A i \in 1..Len(rows) : rows[i].cells = Pool[i]

NextRemote ==
    \/ \E limitSize \in Limits : ApiLimit(limitSize)
    \/ \E as \in {"next", "previous"} : ApiPaginate(as)
    \/ \E keyword \in {Empty, An} : ApiSearch(keyword)
    \/ ApiFilter("name", On)
    \/ \E r \in inflight, n \in 0..MaxRows, total \in 0..MaxTotal :
          Respond(r, n, total)
    \/ \E r \in inflight : Fail(r)

SpecRemote == InitRemote /\ [][NextRemote]_vars

(* the api controls, and the answers that arrive while one request alone
   is in flight *)
NextPayload ==
    \/ \E limitSize \in Limits : ApiLimit(limitSize)
    \/ \E as \in {"next", "previous"} : ApiPaginate(as)
    \/ \E keyword \in {Empty, An} : ApiSearch(keyword)
    \/ \E r \in inflight, n \in 0..MaxRows, total \in 0..MaxTotal :
          inflight = {r} /\ Respond(r, n, total)

SpecPayload == InitRemote /\ [][NextPayload]_vars

(* the api controls, and the outcomes, an answer or a failure, that arrive
   while one request alone is in flight *)
NextOutcome ==
    \/ \E limitSize \in Limits : ApiLimit(limitSize)
    \/ \E as \in {"next", "previous"} : ApiPaginate(as)
    \/ ApiSearch(An)
    \/ \E r \in inflight, n \in 0..MaxRows, total \in 0..MaxTotal :
          inflight = {r} /\ Respond(r, n, total)
    \/ \E r \in inflight : inflight = {r} /\ Fail(r)

SpecOutcome == InitRemote /\ [][NextOutcome]_vars

(* the clicks on the ths and one local control of each kind, on a static
   table of every options.sort *)
InitSort ==
    /\ \E t \in StaticTables, options \in SortOptions : Instance(t, options)
    /\ inflight = {}
    /\ issued = 0
    /\ delivered = <<>>
    /\ last = NoLast
    /\ previousQuery = Absent
    /\ fn = NoCall

NextSort ==
    \/ \E columnIndex \in Columns : Click(columnIndex)
    \/ LocalLimit(2)
    \/ \E as \in {"next", "previous"} : LocalPaginate(as)
    \/ \E keyword \in {An, Zz} : LocalSearch(keyword, {})
    \/ LocalFilter("name", On, {})

SpecSort == InitSort /\ [][NextSort]_vars

(* the pages applyLimitation computes for a static table of rowLength rows
   (total_rows undefined) under every limit *)
InitPure ==
    /\ Init
    /\ rows = <<>>

Paginate(rowLength, limitSize) ==
    /\ fn' = [NoCall EXCEPT !.op = "paginate", !.rowLength = rowLength,
                            !.limit = limitSize,
                            !.pages = createPaginationItems(rowLength,
                                          LimitCount(limitSize, rowLength))]
    /\ UNCHANGED <<rows, props, apiData, inflight, issued, delivered, notes,
                   summary, err, last, previousQuery, sort, ths, closures>>

(* the lists given to createPaginationCeiling: up to MaxCandidates items,
   each "*" or a number up to MaxCandidate, on which the order sort leaves
   is specified *)
CandidateLists ==
    {array \in UNION {[1..k -> {ALL} \cup (1..MaxCandidate)] :
                         k \in 0..MaxCandidates} : SortSpecified(array)}

Ceiling(n, array) ==
    /\ fn' = [NoCall EXCEPT !.op = "ceiling", !.n = n, !.array = array,
                            !.result = createPaginationCeiling(n, array)]
    /\ UNCHANGED <<rows, props, apiData, inflight, issued, delivered, notes,
                   summary, err, last, previousQuery, sort, ths, closures>>

NextPure ==
    \/ \E rowLength \in 0..MaxPureRows,
          limitSize \in {ALL} \cup (1..MaxPureLimit) :
          Paginate(rowLength, limitSize)
    \/ \E n \in {NaN} \cup (0..(MaxCandidate + 1)), array \in CandidateLists :
          Ceiling(n, array)

SpecPure == InitPure /\ [][NextPure]_vars

---------------------------------------------------------------------------
(* HttpRequest.request: the url and the data it sends *)

(* the bound on the requests of one HttpRequest configuration *)
MaxUrlRequests == 2

(* text occurs in full at offset p of url, case told apart *)
StartsAt(url, text, p) ==
    /\ p + Len(text) <= Len(url)
    /\ \A j \in 1..Len(text) : url[p + j] = text[j]

(* String.prototype.includes *)
StringIncludes(url, text) == \E p \in 0..Len(url) : StartsAt(url, text, p)

(* String.prototype.replace with a string pattern: the first occurrence
   alone is replaced *)
StringReplace(url, text, by) ==
    LET hits == {p \in 0..Len(url) : StartsAt(url, text, p)}
    IN  IF hits = {} THEN url
        ELSE LET p == CHOOSE q \in hits : \A r \in hits : q <= r
             IN  SubSeq(url, 1, p) \o by
                    \o SubSeq(url, p + Len(text) + 1, Len(url))

(* encodeURIComponent: a space is %20, letters and digits stand *)
RECURSIVE encodeURIComponent(_)
encodeURIComponent(text) ==
    IF text = <<>> THEN <<>>
    ELSE (IF Head(text) = " " THEN <<"%", "2", "0">> ELSE <<Head(text)>>)
            \o encodeURIComponent(Tail(text))

(* the encoding of URLSearchParams: a space is + *)
FormEncode(text) == [i \in 1..Len(text) |-> IF text[i] = " " THEN "+" ELSE text[i]]

(* an object is the sequence of its [key, value] in insertion order *)
ObjectKeys(data) == [i \in 1..Len(data) |-> data[i].key]

ObjectGet(data, key) ==
    data[CHOOSE i \in 1..Len(data) : data[i].key = key].value

ObjectDelete(data, key) == SelectSeq(data, LAMBDA e : e.key # key)

(* the forEach over Object.keys(data): a key whose placeholder the url
   includes is replaced once by its encoded value and deleted from data *)
RECURSIVE Substitute(_, _, _)
Substitute(url, data, keys) ==
    IF keys = <<>> THEN [url |-> url, data |-> data]
    ELSE LET key == Head(keys)
             placeholder == <<":">> \o key
         IN  IF StringIncludes(url, placeholder)
             THEN Substitute(
                    StringReplace(url, placeholder,
                        encodeURIComponent(ObjectGet(data, key))),
                    ObjectDelete(data, key), Tail(keys))
             ELSE Substitute(url, data, Tail(keys))

(* new URLSearchParams(data).toString() *)
URLSearchParams(data) ==
    Join([i \in 1..Len(data) |->
            FormEncode(data[i].key) \o <<"=">> \o FormEncode(data[i].value)],
         <<"&">>)

(* request(): the url fetched, the body, and what is left of config.data,
   the object the instance holds as api.data *)
request(url, method, data) ==
    LET s == Substitute(url, data, ObjectKeys(data))
        queryString == URLSearchParams(s.data)
    IN  [url |-> IF method = "GET" /\ queryString # <<>>
                 THEN s.url \o <<"?">> \o queryString ELSE s.url,
         body |-> IF method = "GET" THEN <<>> ELSE s.data,
         data |-> s.data]

Id == <<"i", "d">>
Ids == <<"i", "d", "s">>
Slash == <<"/">>
Colon == <<":">>

(* the urls configured: no placeholder, one, one twice, and two of which
   one begins with the other *)
Urls ==
    {Slash \o Id,
     Slash \o Colon \o Id,
     Slash \o Colon \o Ids,
     Slash \o Colon \o Id \o Slash \o Colon \o Id,
     Slash \o Colon \o Id \o Slash \o Colon \o Ids,
     Slash \o Colon \o Ids \o Slash \o Colon \o Id}

Values == {<<"7">>, <<"a", " ", "b">>}

(* the objects with some of the keys id and ids, in either order *)
Payloads ==
    {<<>>}
    \cup {<<[key |-> k, value |-> v]>> : k \in {Id, Ids}, v \in Values}
    \cup {<<[key |-> k[1], value |-> v], [key |-> k[2], value |-> u]>> :
            k \in {<<Id, Ids>>, <<Ids, Id>>}, v \in Values, u \in Values}

NoRequest == [url |-> <<>>, body |-> <<>>]

(* an api configuration of url, method and data *)
Configure(url, method, data) ==
    /\ fn.op = "none"
    /\ fn' = [op |-> "config", url |-> url, method |-> method, data |-> data,
              before |-> data, sent |-> NoRequest, count |-> 0]
    /\ UNCHANGED <<rows, props, apiData, inflight, issued, delivered, notes,
                   summary, err, last, previousQuery, sort, ths, closures>>

(* toInitialize: new HttpRequest({...api}).request(), config.data being the
   object api.data *)
Request ==
    /\ fn.op \in {"config", "request"}
    /\ fn.count < MaxUrlRequests
    /\ LET result == request(fn.url, fn.method, fn.data)
       IN  fn' = [fn EXCEPT !.op = "request", !.before = fn.data,
                            !.data = result.data,
                            !.sent = [url |-> result.url, body |-> result.body],
                            !.count = @ + 1]
    /\ UNCHANGED <<rows, props, apiData, inflight, issued, delivered, notes,
                   summary, err, last, previousQuery, sort, ths, closures>>

NextUrl ==
    \/ \E url \in Urls, method \in {"GET", "POST"}, data \in Payloads :
          Configure(url, method, data)
    \/ Request

SpecUrl == InitPure /\ [][NextUrl]_vars

---------------------------------------------------------------------------
(* HttpRequest.request: the promise, the timer and the callbacks *)

(* resolve and reject settle a pending promise and leave a settled one *)
Settle(promise, outcome) == IF promise = "pending" THEN outcome ELSE promise

(* the catch handler: error(err) if error is a function, then reject(err)
   unless error threw *)
Catch(p) ==
    IF p.error = "none" THEN [p EXCEPT !.promise = Settle(@, "rejected")]
    ELSE IF p.error = "throws" THEN [p EXCEPT !.errorCalls = @ + 1]
    ELSE [p EXCEPT !.errorCalls = @ + 1, !.promise = Settle(@, "rejected")]

(* the finally handler: afterSend() *)
Finally(p) == [p EXCEPT !.afterSend = @ + 1]

(* the handlers after the body was read: a body that does not parse goes
   to catch; html resolves; otherwise success(data) is awaited, then
   resolve(data), or catch if success threw *)
Then(p, parsed) ==
    IF ~parsed THEN Finally(Catch(p))
    ELSE IF p.dataType = "html"
    THEN Finally([p EXCEPT !.promise = Settle(@, "resolved")])
    ELSE IF p.success = "none"
    THEN Finally([p EXCEPT !.promise = Settle(@, "resolved")])
    ELSE IF p.success = "throws"
    THEN Finally(Catch([p EXCEPT !.successCalls = @ + 1]))
    ELSE Finally([p EXCEPT !.successCalls = @ + 1,
                           !.promise = Settle(@, "resolved")])

(* the timer callback without controller.abort() *)
AbortNothing(p) == p

(* controller.abort(): a pending fetch is aborted *)
Abort(p) == IF p.fetch = "pending" THEN [p EXCEPT !.fetch = "aborted"] ELSE p

(* the callbacks given to HttpRequest: absent, returning, or throwing *)
Callbacks == {"none", "returns", "throws"}

(* request(): the executor calls beforeSend, arms the timer and fetches *)
Call(dataType, onSuccess, onError) ==
    /\ fn.op = "none"
    /\ fn' = [op |-> "promise", dataType |-> dataType, success |-> onSuccess,
              error |-> onError, fetch |-> "pending", timer |-> "armed",
              promise |-> "pending", timedOut |-> FALSE, beforeSend |-> 1,
              fetches |-> 1, successCalls |-> 0, errorCalls |-> 0,
              afterSend |-> 0]
    /\ UNCHANGED <<rows, props, apiData, inflight, issued, delivered, notes,
                   summary, err, last, previousQuery, sort, ths, closures>>

(* the response arrives: clearTimeout, then the body is read *)
Response ==
    /\ fn.op = "promise"
    /\ fn.fetch = "pending"
    /\ fn' = [fn EXCEPT !.fetch = "response",
                        !.timer = IF @ = "armed" THEN "cleared" ELSE @]
    /\ UNCHANGED <<rows, props, apiData, inflight, issued, delivered, notes,
                   summary, err, last, previousQuery, sort, ths, closures>>

(* the body was read, and parses or not *)
Body(parsed) ==
    /\ fn.op = "promise"
    /\ fn.fetch = "response"
    /\ fn' = Then([fn EXCEPT !.fetch = "done"], parsed)
    /\ UNCHANGED <<rows, props, apiData, inflight, issued, delivered, notes,
                   summary, err, last, previousQuery, sort, ths, closures>>

(* fetch rejects: catch, then finally; the timer stays armed *)
NetworkError ==
    /\ fn.op = "promise"
    /\ fn.fetch = "pending"
    /\ fn' = Finally(Catch([fn EXCEPT !.fetch = "rejected"]))
    /\ UNCHANGED <<rows, props, apiData, inflight, issued, delivered, notes,
                   summary, err, last, previousQuery, sort, ths, closures>>

(* the timer fires: controller.abort() and reject(); a fetch that was
   aborted rejects, which runs catch and finally *)
TimerFires ==
    /\ fn.op = "promise"
    /\ fn.timer = "armed"
    /\ LET fired == Abort([fn EXCEPT !.timer = "fired",
                                     !.timedOut = (fn.fetch = "pending")])
           rejected == [fired EXCEPT !.promise = Settle(@, "rejected")]
       IN  fn' = IF fired.fetch = "aborted" THEN Finally(Catch(rejected))
                 ELSE rejected
    /\ UNCHANGED <<rows, props, apiData, inflight, issued, delivered, notes,
                   summary, err, last, previousQuery, sort, ths, closures>>

NextPromise ==
    \/ \E dataType \in {"json", "html"}, onSuccess \in Callbacks,
          onError \in Callbacks : Call(dataType, onSuccess, onError)
    \/ Response
    \/ \E parsed \in BOOLEAN : Body(parsed)
    \/ NetworkError
    \/ TimerFires

SpecPromise == InitPure /\ [][NextPromise]_vars

(* every transport outcome comes, and an armed timer fires *)
SpecPromiseFair == SpecPromise /\ WF_vars(NextPromise)

---------------------------------------------------------------------------
(* validateVariable *)

(* a value of the program: its typeof, its String(), the constructors it
   is an instance of, what it holds (the items of an array, the keys of an
   object), and the function that returned it, if one did *)
JsValue(t, v, classes, holds, isArray) ==
    [t |-> t, v |-> v, classes |-> classes, holds |-> holds,
     isArray |-> isArray, by |-> ""]

JsZero == JsValue("number", "0", {}, {}, FALSE)
JsOne == JsValue("number", "1", {}, {}, FALSE)
JsEmpty == JsValue("string", "", {}, {}, FALSE)
JsOneText == JsValue("string", "1", {}, {}, FALSE)
JsFalse == JsValue("boolean", "false", {}, {}, FALSE)
JsTrue == JsValue("boolean", "true", {}, {}, FALSE)
JsUndefined == JsValue("undefined", "undefined", {}, {}, FALSE)
JsNull == JsValue("object", "null", {}, {}, FALSE)
JsArray == JsValue("object", "a", {"Array", "Object"}, {"a"}, TRUE)
JsObject == JsValue("object", "[object Object]", {"Object"}, {"a"}, FALSE)

(* the primitives a rule compares with, and the values validated *)
References == <<JsZero, JsOne, JsEmpty, JsOneText, JsFalse, JsTrue>>
JsValues == References \o <<JsUndefined, JsNull, JsArray, JsObject>>

(* the result of fn(value) *)
Applied(f, value) == [value EXCEPT !.by = f]

(* !!value *)
ToBoolean(value) ==
    value \notin {JsZero, JsEmpty, JsFalse, JsUndefined, JsNull}

(* Number(value) of a number, a string or a boolean above *)
ToNumeric(value) ==
    IF value \in {JsZero, JsEmpty, JsFalse} THEN 0
    ELSE IF value \in {JsOne, JsOneText, JsTrue} THEN 1
    ELSE NaN

(* value == reference *)
LooseEquals(value, reference) ==
    IF value.t = "undefined" \/ value.v = "null"
    THEN reference.t = "undefined" \/ reference.v = "null"
    ELSE IF reference.t = "undefined" \/ reference.v = "null" THEN FALSE
    ELSE IF value.t = reference.t THEN value = reference
    ELSE IF value.t = "object"
    THEN reference.t = "string" /\ value.v = reference.v
    ELSE ToNumeric(value) # NaN /\ ToNumeric(value) = ToNumeric(reference)

(* typeCallback and instanceOfCallback *)
typeCallback(value, type) == value.t = type

instanceOfCallback(value, cls) ==
    IF cls \in {"Array", "Object", "Element"} THEN cls \in value.classes
    ELSE value.t = "string"

(* validateTypeOf where strict is not looked at *)
validateTypeOfSome(value, types, strict) ==
    \E i \in 1..Len(types) : typeCallback(value, types[i])

validateTypeOf(value, types, strict) ==
    IF strict THEN \A i \in 1..Len(types) : typeCallback(value, types[i])
    ELSE \E i \in 1..Len(types) : typeCallback(value, types[i])

validateInstanceOf(value, classes, strict) ==
    IF strict
    THEN \A i \in 1..Len(classes) : instanceOfCallback(value, classes[i])
    ELSE \E i \in 1..Len(classes) : instanceOfCallback(value, classes[i])

(* object.includes(value), object being an array *)
validateInObject(value, object) ==
    \E i \in 1..Len(object) : object[i] = value

(* the outcome of a check: it passes, it fails, or it throws *)
Bool3(passes) == IF passes THEN "true" ELSE "false"

(* validateHasObject: value.includes(key) for an array, key in value for
   another object, which throws a TypeError when the value is null *)
validateHasObject(value, keys, strict) ==
    IF value = JsNull THEN "TypeError"
    ELSE IF value.t = "object"
    THEN Bool3(IF strict THEN \A i \in 1..Len(keys) : keys[i] \in value.holds
               ELSE \E i \in 1..Len(keys) : keys[i] \in value.holds)
    ELSE "false"

validateEquals(value, reference) == LooseEquals(value, reference)

validateStrictEquals(value, reference) == value = reference

(* validateExecute for four callbacks: one returns its argument, one
   tells whether it is a string, one whether it is no array, one throws *)
validateExecute(value, verifyCallback) ==
    IF verifyCallback = "identity" THEN ToBoolean(value)
    ELSE IF verifyCallback = "isString" THEN value.t = "string"
    ELSE IF verifyCallback = "notArray" THEN ~value.isArray
    ELSE FALSE

(* pattern.test(value) for the pattern /^source$/ *)
validatePattern(value, pattern) == value.v = pattern

(* logicalCallback, with validateLogicalAnd (every) and validateLogicalOr
   (some): the first key of cond that is truthy decides, and pattern is no
   key of it *)
RECURSIVE logicalCallback(_, _, _), EveryFrom(_, _, _), SomeFrom(_, _, _)
logicalCallback(value, cond, strict) ==
    IF cond.kind = "instanceOf"
    THEN Bool3(validateInstanceOf(value, cond.classes, strict))
    ELSE IF cond.kind = "typeOf"
    THEN Bool3(validateTypeOf(value, cond.types, strict))
    ELSE IF cond.kind = "in" THEN Bool3(validateInObject(value, cond.object))
    ELSE IF cond.kind = "has" THEN validateHasObject(value, cond.keys, strict)
    ELSE IF cond.kind = "equals" /\ ToBoolean(cond.reference)
    THEN Bool3(validateEquals(value, cond.reference))
    ELSE IF cond.kind = "strictEquals" /\ ToBoolean(cond.reference)
    THEN Bool3(validateStrictEquals(value, cond.reference))
    ELSE IF cond.kind = "execute"
    THEN Bool3(validateExecute(value, cond.execute))
    ELSE IF cond.kind = "and" THEN EveryFrom(value, cond.conditions, 1)
    ELSE IF cond.kind = "or" THEN SomeFrom(value, cond.conditions, 1)
    ELSE Bool3(cond.kind = "true")

EveryFrom(value, conditions, i) ==
    IF i > Len(conditions) THEN "true"
    ELSE LET output == logicalCallback(value, conditions[i], TRUE)
         IN  IF output = "true" THEN EveryFrom(value, conditions, i + 1)
             ELSE output

SomeFrom(value, conditions, i) ==
    IF i > Len(conditions) THEN "false"
    ELSE LET output == logicalCallback(value, conditions[i], FALSE)
         IN  IF output = "false" THEN SomeFrom(value, conditions, i + 1)
             ELSE output

validateLogicalOr(value, conditions) == SomeFrom(value, conditions, 1)

validateLogicalAnd(value, conditions) == EveryFrom(value, conditions, 1)

(* what a call gives: a value returned or an error thrown *)
Returns(value) == [kind |-> "return", value |-> value, error |-> ""]
Throws(thrown) == [kind |-> "throw", value |-> JsUndefined, error |-> thrown]

(* the $fallback and the $transform that are no functions *)
FallbackValue == JsValue("string", "fallback", {}, {}, FALSE)
TransformValue == JsValue("string", "transform", {}, {}, FALSE)

(* validateFallback: no $fallback throws, a function is called with the
   value, anything else is returned *)
validateFallback(value, fallback) ==
    IF fallback = "undefined" THEN Throws("TableJSError")
    ELSE IF fallback = "function" THEN Returns(Applied("$fallback", value))
    ELSE Returns(FallbackValue)

(* the check of the one key the rule set carries, as the body of
   validateVariable makes it *)
Check(value, check) ==
    IF check.kind = "or" THEN validateLogicalOr(value, check.conditions)
    ELSE IF check.kind = "and" THEN validateLogicalAnd(value, check.conditions)
    ELSE IF check.kind = "typeOf"
    THEN Bool3(validateTypeOf(value, check.types, FALSE))
    ELSE IF check.kind = "in" THEN Bool3(validateInObject(value, check.object))
    ELSE IF check.kind = "has" THEN validateHasObject(value, check.keys, FALSE)
    ELSE IF check.kind = "instanceOf"
    THEN Bool3(validateInstanceOf(value, check.classes, FALSE))
    ELSE IF check.kind = "equals"
    THEN Bool3(validateEquals(value, check.reference))
    ELSE IF check.kind = "strictEquals"
    THEN Bool3(validateStrictEquals(value, check.reference))
    ELSE IF check.kind = "execute"
    THEN Bool3(validateExecute(value, check.execute))
    ELSE Bool3(validatePattern(value, check.pattern))

(* validateVariable(value, {check, $fallback, $transform}): a failing
   equals or strictEquals reads equalsValue or strictEqualsValue, which
   the scope does not declare, before validateFallback is called *)
validateVariable(value, check, fallback, transform) ==
    LET output == Check(value, check)
    IN  IF output = "TypeError" THEN Throws("TypeError")
        ELSE IF output = "false"
        THEN IF check.kind \in {"equals", "strictEquals"}
             THEN Throws("ReferenceError")
             ELSE validateFallback(value, fallback)
        ELSE IF transform = "undefined" THEN Returns(value)
        ELSE IF transform = "function"
        THEN Returns(Applied("$transform", value))
        ELSE Returns(TransformValue)

(* the sub-rules of $and and $or *)
Conditions ==
    <<[kind |-> "typeOf", types |-> <<"string">>],
      [kind |-> "typeOf", types |-> <<"string", "number">>],
      [kind |-> "typeOf", types |-> <<"object", "object">>],
      [kind |-> "instanceOf", classes |-> <<"Array">>],
      [kind |-> "instanceOf", classes |-> <<"Array", "Object">>],
      [kind |-> "instanceOf", classes |-> <<"Array", "String">>],
      [kind |-> "in", object |-> <<JsZero, JsOneText>>],
      [kind |-> "has", keys |-> <<"a">>],
      [kind |-> "has", keys |-> <<"a", "b">>],
      [kind |-> "equals", reference |-> JsZero],
      [kind |-> "equals", reference |-> JsOne],
      [kind |-> "equals", reference |-> JsEmpty],
      [kind |-> "equals", reference |-> JsFalse],
      [kind |-> "strictEquals", reference |-> JsZero],
      [kind |-> "strictEquals", reference |-> JsOneText],
      [kind |-> "strictEquals", reference |-> JsFalse],
      [kind |-> "execute", execute |-> "identity"],
      [kind |-> "execute", execute |-> "isString"],
      [kind |-> "execute", execute |-> "throws"],
      [kind |-> "pattern", pattern |-> "1"]>>

(* the pairs of sub-rules put together in $and and in $or *)
Pairs ==
    <<<<1, 10>>, <<1, 7>>, <<3, 8>>, <<8, 3>>, <<7, 20>>, <<17, 12>>>>

(* the checks of a rule set: each sub-rule on its own, alone in $and,
   alone in $or, and the pairs in $and and in $or *)
Checks ==
    Conditions
    \o [i \in 1..Len(Conditions) |->
          [kind |-> "and", conditions |-> <<Conditions[i]>>]]
    \o [i \in 1..Len(Conditions) |->
          [kind |-> "or", conditions |-> <<Conditions[i]>>]]
    \o [i \in 1..Len(Pairs) |->
          [kind |-> "and",
           conditions |-> <<Conditions[Pairs[i][1]], Conditions[Pairs[i][2]]>>]]
    \o [i \in 1..Len(Pairs) |->
          [kind |-> "or",
           conditions |-> <<Conditions[Pairs[i][1]], Conditions[Pairs[i][2]]>>]]

(* $fallback and $transform: absent, a function, or another value *)
Options == {"undefined", "function", "value"}

(* one call of validateVariable *)
Validate(value, check, fallback, transform) ==
    /\ fn.op = "none"
    /\ fn' = [op |-> "validate", value |-> value, check |-> check,
              fallback |-> fallback, transform |-> transform,
              output |-> Check(value, check),
              outcome |-> validateVariable(value, check, fallback, transform)]
    /\ UNCHANGED <<rows, props, apiData, inflight, issued, delivered, notes,
                   summary, err, last, previousQuery, sort, ths, closures>>

NextValidate ==
    \E i \in 1..Len(JsValues), j \in 1..Len(Checks),
       fallback \in Options, transform \in Options :
       Validate(JsValues[i], Checks[j], fallback, transform)

SpecValidate == InitPure /\ [][NextValidate]_vars

---------------------------------------------------------------------------
(* the arguments toLimit, toPaginate, toSearch and toFilter validate before
   they touch the table *)

JsText(v) == JsValue("string", v, {}, {}, FALSE)

(* to of toLimit and of toPaginate *)
ToRule ==
    [kind |-> "and",
     conditions |-> <<[kind |-> "typeOf", types |-> <<"string">>],
                      [kind |-> "in",
                       object |-> <<JsText("local"), JsText("api")>>]>>]

(* as of toPaginate *)
AsRule ==
    [kind |-> "and",
     conditions |-> <<[kind |-> "typeOf", types |-> <<"string">>],
                      [kind |-> "in",
                       object |-> <<JsText("next"), JsText("previous")>>]>>]

(* keyword of toSearch *)
KeywordRule ==
    [kind |-> "and",
     conditions |-> <<[kind |-> "typeOf", types |-> <<"string">>]>>]

(* filters of toFilter *)
FiltersRule ==
    [kind |-> "and",
     conditions |-> <<[kind |-> "typeOf", types |-> <<"object">>],
                      [kind |-> "execute", execute |-> "notArray"]>>]

(* validateVariable of an argument under a rule set without $fallback
   returns *)
Validated(value, check) ==
    validateVariable(value, check, "undefined", "undefined").kind = "return"

(* toLimit from its first line: to is validated, limitSize has a $fallback *)
LimitCall(w, limitSize, to) ==
    IF ~Validated(to, ToRule) THEN Throw(w)
    ELSE toLimit(w, limitSize, to.v)

(* toPaginate without the validation of its arguments *)
PaginateCallUnchecked(w, as, to) ==
    toPaginate(w, as.v, to.v)

(* toPaginate from its first line: as and to are validated *)
PaginateCall(w, as, to) ==
    IF ~Validated(as, AsRule) \/ ~Validated(to, ToRule) THEN Throw(w)
    ELSE toPaginate(w, as.v, to.v)

(* toSearch from its first line: keyword is validated, to is not *)
SearchCall(w, keyword, to) ==
    IF ~Validated(keyword, KeywordRule) THEN Throw(w)
    ELSE toSearch(w, keyword.v, {}, to)

(* toFilter from its first line: filters is validated, to is not *)
FilterCall(w, filters, to) ==
    IF ~Validated(filters, FiltersRule) THEN Throw(w)
    ELSE toFilter(w, filters.v, {}, to)

(* the arguments given: the valid ones, a string that is none of them, and
   values of another type *)
ToArguments == <<JsText("local"), JsText("api"), JsText("remote"), JsOne>>
AsArguments == <<JsText("next"), JsText("previous"), JsText("first"),
                 JsUndefined>>
KeywordArguments == <<JsText(An), JsText(Empty), JsOne, JsUndefined>>
FiltersArguments ==
    <<JsValue("object", [ref |-> 1, map |-> [NoFilters.map EXCEPT !.name = On]],
              {"Object"}, {}, FALSE),
      JsArray, JsOne>>

(* a call with to = "api" is made while fewer than MaxRequests requests were
   sent, any other while no request is in flight *)
MayCall(to) ==
    IF to = "api" THEN issued < MaxRequests ELSE inflight = {}

CallLimit(limitSize, to) ==
    /\ MayCall(to.v)
    /\ Commit(LimitCall(World, limitSize, to),
              [NoLast EXCEPT !.op = "limit", !.to = to.v, !.limit = limitSize,
                             !.valid = Validated(to, ToRule)])

CallPaginate(as, to) ==
    /\ MayCall(to.v)
    /\ Commit(PaginateCall(World, as, to),
              [NoLast EXCEPT !.op = "paginate", !.to = to.v, !.as = as.v,
                             !.valid = Validated(as, AsRule)
                                          /\ Validated(to, ToRule)])

CallSearch(keyword, to) ==
    /\ MayCall(to)
    /\ Commit(SearchCall(World, keyword, to),
              [NoLast EXCEPT !.op = "search", !.to = to,
                             !.valid = Validated(keyword, KeywordRule)])

CallFilter(filters, to) ==
    /\ MayCall(to)
    /\ Commit(FilterCall(World, filters, to),
              [NoLast EXCEPT !.op = "filter", !.to = to,
                             !.valid = Validated(filters, FiltersRule)])

NextArguments ==
    \/ \E limitSize \in Limits, i \in 1..Len(ToArguments) :
          CallLimit(limitSize, ToArguments[i])
    \/ \E i \in 1..Len(AsArguments), j \in 1..Len(ToArguments) :
          CallPaginate(AsArguments[i], ToArguments[j])
    \/ \E i \in 1..Len(KeywordArguments), to \in {"local", "api"} :
          CallSearch(KeywordArguments[i], to)
    \/ \E i \in 1..Len(FiltersArguments), to \in {"local", "api"} :
          CallFilter(FiltersArguments[i], to)

SpecArguments == InitRemote /\ [][NextArguments]_vars


---------------------------------------------------------------------------
(* What the specification says of the engine, stated over the model *)

(* no request is in flight and the last handler returned normally *)
Settled == inflight = {} /\ ~err /\ last.op # "init"

(* the number of pages the specification gives a total and a limit *)
PageCount(total_rows, limit) ==
    IF limit = ALL THEN 1 ELSE (total_rows + limit - 1) \div limit

(* the total the view works with: the one a response stored, else the
   number of data rows of the table *)
TotalRows ==
    IF props.total_rows = Undef THEN Len(DataRows(rows)) ELSE props.total_rows

(* the test the specification gives a search: the joined text of the
   cells that are not excluded contains the keyword, whatever the case *)
SearchMatches(row, keyword, exclude) ==
    Contains(Join(TextContents(row, exclude), Space), keyword)

(* the test the specification gives a filter: every non-empty value is
   found in at least one cell that is not excluded *)
FilterMatches(row, map, exclude) ==
    \A f \in DOMAIN map :
        (map[f] # Absent /\ map[f] # <<>>) =>
            \E c \in 1..Len(row.cells) :
                (c - 1) \notin exclude /\ Contains(row.cells[c], map[f])

LocalQuery == last.to = "local" /\ last.op \in {"search", "filter"} /\ ~err

(* the data rows of the table that match the last local search or filter *)
MatchCount ==
    Cardinality({i \in 1..Len(rows) :
        /\ ~rows[i].dummy
        /\ IF last.op = "search"
           THEN SearchMatches(rows[i], last.keyword, last.exclude)
           ELSE FilterMatches(rows[i], props.filters.map, last.exclude)})

DummyCount == Cardinality({i \in 1..Len(rows) : rows[i].dummy})

NotesOf(property) ==
    Cardinality({i \in 1..Len(notes) : notes[i].property = property})

(* C1: when request A is dispatched, then request B, and B's response is
   delivered before A's, A's response is discarded: the rows and the
   total_rows of the table are those of B's response *)
C1_StaleResponseDiscarded ==
    (/\ Len(delivered) = 2
     /\ delivered[1].id = 2 /\ delivered[1].ok /\ delivered[1].n > 0
     /\ delivered[2].id = 1
     /\ last.req = 1)
    => /\ \A i \in 1..Len(rows) : rows[i].src # 1
       /\ props.total_rows = delivered[1].total_rows

(* C2: when the request of a remote limit change, page move or search
   fails, the page, limit and search of the store are what they were
   immediately before that action started (stated for a failure of the
   only request sent so far) *)
C2_FailureKeepsStore ==
    (last.op = "error" /\ issued = 1)
    => /\ props.page = last.pre.page
       /\ props.limit = last.pre.limit
       /\ props.search = last.pre.search

(* C3: in every settled state the page is at least 1 and at most the page
   count of total_rows under the limit *)
C3_PageWithinPageCount ==
    Settled => /\ 1 <= props.page
               /\ props.page <= PageCount(TotalRows, props.limit)

(* C4: in every settled state whose limit is ALL the page is 1 *)
C4_AllMeansPageOne ==
    (Settled /\ props.limit = ALL) => props.page = 1

(* C5: a set of filters that is shallow-equal to the stored filters changes
   nothing and notifies nobody; any other set commits the value and
   notifies the subscriber exactly once *)
C5_SetShallowEqualIsNoOp ==
    (last.op = "filter" /\ last.to = "local")
    => IF last.same THEN NotesOf("filters") = 0
       ELSE /\ NotesOf("filters") = 1
            /\ \E i \in 1..Len(notes) : /\ notes[i].property = "filters"
                                        /\ notes[i].props = props

(* C6: after a local search a data row is visible exactly when the joined
   text of its cells that are not excluded contains the keyword, whatever
   the case; the other rows and their order have no part in it *)
C6_SearchMatchIsPerRow ==
    (LocalQuery /\ last.op = "search")
    => \A i \in 1..Len(rows) :
          ~rows[i].dummy =>
             (rows[i].visible <=>
                 SearchMatches(rows[i], last.keyword, last.exclude))

(* C7: the summary a local search or filter gives is page 1 of 1, first
   item min(m, 1), last item m and total m, for m matching data rows, with
   or without a placeholder row in the table beforehand *)
C7_QuerySummary ==
    LocalQuery
    => summary = [current_page |-> 1, total_page |-> 1,
                  start_item |-> IF MatchCount < 1 THEN MatchCount ELSE 1,
                  end_item |-> MatchCount, total_rows |-> MatchCount]

(* C8: after a local search or filter the table holds exactly one
   placeholder row when no data row is shown as a match, and none when
   some data row is *)
C8_PlaceholderIffNoMatch ==
    LocalQuery
    => DummyCount =
          IF \E i \in 1..Len(rows) : ~rows[i].dummy /\ rows[i].visible
          THEN 0 ELSE 1

(* C9: after a local filter a data row is visible exactly when every
   non-empty filter value is found in at least one of its cells that are
   not excluded; keys with an empty value constrain nothing *)
C9_FilterAndOfOrs ==
    (LocalQuery /\ last.op = "filter")
    => \A i \in 1..Len(rows) :
          ~rows[i].dummy =>
             (rows[i].visible <=>
                 FilterMatches(rows[i], props.filters.map, last.exclude))

(* a filter with two non-empty values that keeps one data row and hides
   another *)
C9_Witness ==
    /\ LocalQuery /\ last.op = "filter"
    /\ props.filters.map["name"] = On
    /\ props.filters.map["status"] = An
    /\ \E i \in 1..Len(rows) : ~rows[i].dummy /\ rows[i].visible
    /\ \E i \in 1..Len(rows) : ~rows[i].dummy /\ ~rows[i].visible

(* C10: with a numeric limit the pages are ceil(totalRows / limit) runs of
   consecutive indices, page i from i * limit to
   min((i + 1) * limit, totalRows) - 1; with ALL there is exactly one page,
   holding every index *)
C10_PaginatePages ==
    fn.op = "paginate"
    => LET n == fn.rowLength
           limit == fn.limit
       IN  IF limit = ALL
           THEN /\ Len(fn.pages) = 1
                /\ fn.pages[1] = Range(0, n)
           ELSE /\ Len(fn.pages) = PageCount(n, limit)
                /\ \A i \in 0..(PageCount(n, limit) - 1) :
                      fn.pages[i + 1] =
                          Range(i * limit,
                                IF (i + 1) * limit < n THEN (i + 1) * limit
                                ELSE n)

(* clampPage of the specification *)
ClampPage(requested, pageCount) ==
    IF requested > pageCount
    THEN (IF pageCount < 1 THEN 1 ELSE pageCount)
    ELSE (IF requested < 1 THEN 1 ELSE requested)

(* the request the last handler sent, while it is in flight *)
LastRequest == {r \in inflight : r.id = last.req}

RemoteLimitChange ==
    last.op = "limit" /\ last.to = "api" /\ last.limit # ALL /\ ~err

(* C11: a change of the limit to a number L sets the page, before the
   request is sent, to clampPage(previous page, ceil(total_rows / L))
   (stated for a known total_rows of at least 1) *)
C11_LimitClampsPage ==
    RemoteLimitChange
    => \A r \in LastRequest :
          r.pre.total_rows >= 1 =>
             r.at.page = ClampPage(r.pre.page,
                                   PageCount(r.pre.total_rows, last.limit))

(* C12: when the page count toLimit computes is 0 or NaN the clamp does
   nothing: the page keeps the valid value it had and is not written *)
C12_ClampNoOpOnZeroOrNaN ==
    RemoteLimitChange
    => \A r \in LastRequest :
          (/\ r.pre.page >= 1
           /\ JsRoundDiv(r.pre.total_rows, last.limit) \in {0, NaN})
          => /\ NotesOf("page") = 0
             /\ props.page = r.pre.page

(* the candidates in the ascending order of the specification's example:
   the ALL items first, then the numbers from the least to the greatest *)
SortedCandidates(array) ==
    SelectSeq(array, LAMBDA x : x = ALL)
        \o SortSeq(SelectSeq(array, LAMBDA x : x # ALL), LAMBDA a, b : a < b)

(* C13: for a numeric n, ceilingOptions gives the candidates sorted
   ascending and cut after the first candidate >= n, that one included,
   and the whole sorted sequence when no candidate is >= n *)
C13_CeilingIsSortedPrefix ==
    (fn.op = "ceiling" /\ fn.n # NaN)
    => LET sorted == SortedCandidates(fn.array)
           reached == {i \in 1..Len(sorted) :
                          sorted[i] # ALL /\ sorted[i] >= fn.n}
       IN  fn.result =
              IF reached = {} THEN sorted
              ELSE SubSeq(sorted, 1,
                          CHOOSE i \in reached : \A j \in reached : i <= j)

(* C14: whatever n is, and wherever ALL stands in the candidates, the
   result of ceilingOptions holds ALL when the candidates do *)
C14_CeilingKeepsAll ==
    (fn.op = "ceiling" /\ InSeq(ALL, fn.array)) => InSeq(ALL, fn.result)

(* the step is one click on the th at columnIndex *)
Clicked(columnIndex) == last'.op = "sort" /\ last'.column = columnIndex

(* the data rows rs in the order of column columnIndex under the
   comparator of the specification, ascending or descending *)
InColumnOrder(rs, columnIndex, ascending) ==
    \A i, j \in 1..Len(rs) : i < j =>
        LET comparison == localeCompare(Trim(rs[i].cells[columnIndex + 1]),
                                        Trim(rs[j].cells[columnIndex + 1]))
        IN  IF ascending THEN comparison <= 0 ELSE comparison >= 0

(* the data rows rs in ingestion order: strictly ascending index *)
InIndexOrder(rs) ==
    \A i, j \in 1..Len(rs) : i < j => rs[i].index < rs[j].index

(* C15: with ascending = true, one click on a sortable column advances its
   cycle by exactly one step: from NONE the rows are sorted ascending and
   the marker is ASCENDING, from ASCENDING the rows are sorted descending
   and the marker is DESCENDING, from DESCENDING the original order is
   restored and the marker is NONE *)
C15_ClickAdvancesOneStep ==
    [][\A c \in Columns :
          (Clicked(c) /\ sort.ascending /\ c \notin sort.exclude) =>
             /\ ths[c] = "NONE" =>
                   /\ ths'[c] = "ASCENDING"
                   /\ InColumnOrder(DataRows(rows'), c, TRUE)
             /\ ths[c] = "ASCENDING" =>
                   /\ ths'[c] = "DESCENDING"
                   /\ InColumnOrder(DataRows(rows'), c, FALSE)
             /\ ths[c] = "DESCENDING" =>
                   /\ ths'[c] = "NONE"
                   /\ InIndexOrder(DataRows(rows'))]_vars

(* the ths that carry CLASS.SORT.ASCENDING or CLASS.SORT.DESCENDING *)
Marked == {c \in Columns : ths[c] # "NONE"}

(* C16: after any clicks on any columns at most one column carries an
   active sort marker, ASCENDING or DESCENDING, and a column excluded from
   sorting carries none *)
C16_OneActiveMarker ==
    /\ Cardinality(Marked) <= 1
    /\ \A c \in Columns : c \in sort.exclude => ths[c] = "NONE"

(* a click on an excluded column while another column carries a marker *)
C16_Witness ==
    /\ last.op = "sort"
    /\ last.column \in sort.exclude
    /\ Marked # {}

(* the index each data row of rs carries, the row told by where it came
   from and by its cells *)
Indexes(rs) ==
    {<<rs[i].src, rs[i].cells, rs[i].index>> :
        i \in {j \in 1..Len(rs) : ~rs[j].dummy}}

(* C17: no Sort, Search, Filter, Paginate or ChangeLimit action changes the
   index of a row, and a click on a column in state DESCENDING leaves the
   rows in strictly ascending index order *)
C17_IndexStableAndRestored ==
    [][/\ Indexes(rows') = Indexes(rows)
       /\ \A c \in Columns :
             (Clicked(c) /\ c \notin sort.exclude /\ ths[c] = "DESCENDING")
                => InIndexOrder(DataRows(rows'))]_vars

(* the answer the last handler, success, was given *)
Answer == delivered[Len(delivered)]

(* C18: after a successful remote response of any length, zero included,
   the rows of the table are exactly the rows of the response, in its
   order, and no earlier row remains *)
C18_ResponseReplacesRows ==
    last.op = "success" =>
        /\ Len(rows) = Answer.n
        /\ \A i \in 1..Len(rows) :
              /\ rows[i].src = last.req
              /\ rows[i].index = i - 1
              /\ rows[i].cells = RenderedRows(Answer.n, last.req)[i].cells

(* the step is the successful answer to the request r *)
Answered(r) ==
    /\ r \in inflight
    /\ r \notin inflight'
    /\ last'.op = "success"
    /\ last'.req = r.id

(* the request r asks for a page p >= 1 under a numeric limit *)
AsksPage(r) ==
    /\ "page" \in r.query.fields
    /\ r.query.page >= 1
    /\ "limit" \in r.query.fields
    /\ r.query.limit # ALL

(* C19: after the successful answer to a request for page p >= 1 under
   limit L, total_rows is the total the response reported and every row
   the response returned is visible *)
C19_ResponseIsOneVisibleSlice ==
    [][\A r \in inflight :
          (Answered(r) /\ AsksPage(r)) =>
             /\ props'.total_rows = delivered'[Len(delivered')].total_rows
             /\ \A i \in 1..Len(rows') :
                   rows'[i].src = r.id => rows'[i].visible]_vars

(* the step is a remote-target action of the kind op that did not throw *)
Dispatched(op) ==
    last' # last /\ last'.to = "api" /\ last'.op = op /\ ~err'

(* the requests the step sent *)
Issued == inflight' \ inflight

(* C20: every remote-target ChangeLimit, Paginate, Search or Filter issues
   a request, and the payload of the request carries the effect of the
   action: the limit chosen, the page of the store, the keyword searched *)
C20_RemoteActionsDelegate ==
    [][/\ \A op \in {"limit", "paginate", "search", "filter"} :
             Dispatched(op) => Cardinality(Issued) = 1
       /\ \A r \in Issued :
             /\ Dispatched("limit") =>
                   "limit" \in r.query.fields /\ r.query.limit = last'.limit
             /\ Dispatched("paginate") => "page" \in r.query.fields
             /\ (Dispatched("search") /\ last'.keyword # <<>>) =>
                   "search" \in r.query.fields
                      /\ r.query.search = last'.keyword]_vars

(* the last handler was a remote Search that sent a request *)
RemoteSearch ==
    /\ last.op = "search"
    /\ last.to = "api"
    /\ \E r \in LastRequest : r.op = "search"

(* C21: the payload of the request of a remote Search holds no page,
   whatever the payload held before, and holds search = keyword exactly
   when the keyword is not empty *)
C21_SearchPayload ==
    RemoteSearch =>
        \A r \in LastRequest :
            /\ "page" \notin r.query.fields
            /\ last.keyword # <<>> =>
                  "search" \in r.query.fields /\ r.query.search = last.keyword
            /\ last.keyword = <<>> => "search" \notin r.query.fields

(* a remote Search for a keyword right after a request whose payload held
   a page *)
C21_Witness ==
    /\ RemoteSearch
    /\ last.keyword # <<>>
    /\ \E r \in inflight :
          r.id = last.req - 1 /\ "page" \in r.query.fields

(* the last handler was a remote ChangeLimit that sent a request *)
RemoteLimit ==
    /\ last.op = "limit"
    /\ last.to = "api"
    /\ \E r \in LastRequest : r.op = "limit"

(* C22: after a remote ChangeLimit to ALL the payload of its request holds
   no page and the page of the store is 1 *)
C22_LimitAllDropsPage ==
    (RemoteLimit /\ last.limit = ALL) =>
        /\ props.page = 1
        /\ \A r \in LastRequest :
              "page" \notin r.query.fields /\ r.at.page = 1

(* the last handler was a remote Paginate that sent a request *)
RemotePaginate ==
    /\ last.op = "paginate"
    /\ last.to = "api"
    /\ \E r \in LastRequest : r.op = "paginate"

(* C23: the payload of the request of a remote Paginate or of a remote
   ChangeLimit holds no search, even when the payload held one before *)
C23_PagingDropsSearch ==
    (RemotePaginate \/ RemoteLimit) =>
        \A r \in LastRequest : "search" \notin r.query.fields

(* a remote Paginate right after a remote Search whose payload held the
   keyword *)
C23_Witness ==
    /\ RemotePaginate
    /\ \E r \in inflight :
          r.id = last.req - 1 /\ "search" \in r.query.fields

(* a character of a field name *)
NameChar(c) == c \notin {"/", ":", "?", "%", "=", "&", "+", " "}

(* the longest run of name characters url begins with *)
RECURSIVE NameRun(_)
NameRun(url) ==
    IF url = <<>> \/ ~NameChar(Head(url)) THEN <<>>
    ELSE <<Head(url)>> \o NameRun(Tail(url))

(* the field names of the placeholders of url *)
Placeholders(url) ==
    {NameRun(SubSeq(url, p + 1, Len(url))) :
        p \in {q \in 1..Len(url) : url[q] = ":"}}

(* url up to its query string *)
Path(url) ==
    LET marks == {p \in 1..Len(url) : url[p] = "?"}
    IN  IF marks = {} THEN url
        ELSE SubSeq(url, 1, (CHOOSE p \in marks : \A q \in marks : p <= q) - 1)

(* the request sent carries the field key in its query string or body *)
Serialized(sent, key) ==
    \/ StringIncludes(sent.url, <<"?">> \o key \o <<"=">>)
    \/ StringIncludes(sent.url, <<"&">> \o key \o <<"=">>)
    \/ \E i \in 1..Len(sent.body) : sent.body[i].key = key

(* C24: in every request, the first and the later ones, each placeholder
   :fieldName of the configured url whose field the payload holds is
   replaced by the value of the field, and the field is not in the query
   string or the body of the request *)
C24_PlaceholdersSubstituted ==
    fn.op = "request" =>
        \A i \in 1..Len(fn.before) :
            fn.before[i].key \in Placeholders(fn.url)
               => /\ fn.before[i].key \notin Placeholders(Path(fn.sent.url))
                  /\ StringIncludes(Path(fn.sent.url),
                                    encodeURIComponent(fn.before[i].value))
                  /\ ~Serialized(fn.sent, fn.before[i].key)

(* C25: when the timer of a request fires before the response, the request
   is aborted and fails exactly once, its response is never handed to
   success afterwards, and no further request is fetched *)
C25_TimeoutFailsOnce ==
    (fn.op = "promise" /\ fn.timedOut) =>
        /\ fn.fetch = "aborted"
        /\ fn.promise = "rejected"
        /\ fn.error # "none" => fn.errorCalls = 1
        /\ fn.successCalls = 0
        /\ fn.fetches = 1

(* a request of the table, whose error callback throws, timed out *)
C25_Witness ==
    /\ fn.op = "promise"
    /\ fn.timedOut
    /\ fn.error = "throws"
    /\ fn.afterSend = 1

(* C26: the promise request() returns always settles, whatever the
   transport does and whatever the callbacks do *)
C26_PromiseSettles ==
    (fn.op = "promise") ~> (fn.op = "promise" /\ fn.promise # "pending")

(* C27: a rule set with a $fallback never fails: when its check fails,
   whatever the kind of the check, validateVariable returns the fallback
   value, or what the fallback function returns, and does not apply
   $transform; without a $fallback it raises the validation error *)
C27_FallbackNeverFails ==
    (fn.op = "validate" /\ fn.output = "false") =>
        IF fn.fallback = "undefined"
        THEN fn.outcome.kind = "throw" /\ fn.outcome.error = "TableJSError"
        ELSE /\ fn.outcome.kind = "return"
             /\ fn.outcome.value =
                   IF fn.fallback = "function"
                   THEN Applied("$fallback", fn.value) ELSE FallbackValue

(* the sub-rule passes for the value as the only check of a rule set *)
OnItsOwn(value, cond) == Check(value, cond) = "true"

(* the sub-rule lists no more than one type, class or key, so that it
   asks the same of a value in $and, in $or and on its own *)
OneListed(cond) ==
    /\ cond.kind = "typeOf" => Len(cond.types) = 1
    /\ cond.kind = "instanceOf" => Len(cond.classes) = 1
    /\ cond.kind = "has" => Len(cond.keys) = 1

(* C28: $or passes exactly when one of its sub-rules passes on its own,
   $and exactly when all of them do: a nested sub-rule of any kind, equals
   and strictEquals against a falsy reference and pattern included, passes
   for the values it passes for on its own *)
C28_OrAndOfSubRules ==
    (/\ fn.op = "validate"
     /\ fn.check.kind \in {"or", "and"}
     /\ \A i \in 1..Len(fn.check.conditions) :
           OneListed(fn.check.conditions[i])) =>
        /\ fn.check.kind = "or" =>
              (fn.output = "true" <=>
                 \E i \in 1..Len(fn.check.conditions) :
                    OnItsOwn(fn.value, fn.check.conditions[i]))
        /\ fn.check.kind = "and" =>
              (fn.output = "true" <=>
                 \A i \in 1..Len(fn.check.conditions) :
                    OnItsOwn(fn.value, fn.check.conditions[i]))

(* the value satisfies the i-th type or class the rule lists *)
Satisfies(value, cond, i) ==
    IF cond.kind = "typeOf" THEN typeCallback(value, cond.types[i])
    ELSE instanceOfCallback(value, cond.classes[i])

(* the number of types or classes the rule lists *)
ListLength(cond) ==
    IF cond.kind = "typeOf" THEN Len(cond.types) ELSE Len(cond.classes)

TypeRule(cond) == cond.kind \in {"typeOf", "instanceOf"}

(* C29: a typeOf or instanceOf that lists several types passes inside $and
   only if the value satisfies every one listed, and inside $or or at the
   top level if it satisfies any one; so a typeOf of two distinct types
   never passes inside $and *)
C29_TypeListsEveryInAnd ==
    fn.op = "validate" =>
        /\ fn.check.kind = "and" =>
              \A i \in 1..Len(fn.check.conditions) :
                 LET cond == fn.check.conditions[i]
                 IN  TypeRule(cond) =>
                        /\ fn.output = "true" =>
                              \A j \in 1..ListLength(cond) :
                                 Satisfies(fn.value, cond, j)
                        /\ (Len(fn.check.conditions) = 1
                              /\ \A j \in 1..ListLength(cond) :
                                    Satisfies(fn.value, cond, j))
                              => fn.output = "true"
                        /\ (cond.kind = "typeOf"
                              /\ \E j, k \in 1..Len(cond.types) :
                                    cond.types[j] # cond.types[k])
                              => fn.output # "true"
        /\ (fn.check.kind = "or" /\ Len(fn.check.conditions) = 1
               /\ TypeRule(fn.check.conditions[1])) =>
              (fn.output = "true" <=>
                 \E j \in 1..ListLength(fn.check.conditions[1]) :
                    Satisfies(fn.value, fn.check.conditions[1], j))
        /\ TypeRule(fn.check) =>
              (fn.output = "true" <=>
                 \E j \in 1..ListLength(fn.check) :
                    Satisfies(fn.value, fn.check, j))

(* a string validated against typeOf ["string", "number"] alone in $and:
   the check fails *)
C29_Witness ==
    /\ fn.op = "validate"
    /\ fn.check.kind = "and"
    /\ Len(fn.check.conditions) = 1
    /\ fn.check.conditions[1].kind = "typeOf"
    /\ Len(fn.check.conditions[1].types) = 2
    /\ fn.value.t = "string"
    /\ fn.output = "false"

(* the step leaves the table as it was and raises: the rows and their
   visibility, the store, the payload and the requests are unchanged *)
RaisedBeforeAnyChange ==
    /\ err'
    /\ rows' = rows
    /\ props' = props
    /\ apiData' = apiData
    /\ inflight' = inflight
    /\ issued' = issued
    /\ notes' = <<>>

(* C30: when an argument of ChangeLimit, Paginate, Search or Filter fails
   its validation, which has no fallback, the error is raised before
   anything is changed: the store, the payload and the visibility of the
   rows are as before and no request is sent *)
C30_InvalidArgumentChangesNothing ==
    [][(last'.op \in {"limit", "paginate", "search", "filter"}
          /\ ~last'.valid)
         => RaisedBeforeAnyChange]_vars

(* toPaginate was called with as = "first" while the store held a search
   keyword, which toPaginate resets when it runs *)
C30_Witness ==
    /\ err
    /\ last.op = "paginate"
    /\ last.as = "first"
    /\ ~last.valid
    /\ props.search # <<>>

(* C31: local ChangeLimit, Paginate, Search and Filter, given arguments
   that pass their validation, never throw, whatever the number of rows,
   an empty table included *)
C31_LocalActionsNeverThrow ==
    (last.op \in {"limit", "paginate", "search", "filter"} /\ last.to = "local")
        => ~err

(* the click listeners the th at columnIndex carries *)
ClickListeners(columnIndex) ==
    {k \in 1..Len(closures) : columnIndex \notin closures[k].exclude}

(* C32: the wiring of the controls is idempotent: after the construction
   and after any later initialization, one click on a sortable th runs
   exactly one sort step *)
C32_OneListenerPerControl ==
    (last.op = "sort" /\ last.column \notin sort.exclude)
        => Cardinality(ClickListeners(last.column)) = 1

(* C33: after a remote Paginate or a remote ChangeLimit was dispatched, the
   page the request carries in its payload, when it carries one, is the
   page the store holds *)
C33_PayloadPageIsStorePage ==
    (RemotePaginate \/ RemoteLimit)
    => \A r \in LastRequest :
          "page" \in r.query.fields => r.query.page = props.page

(* C34: building and sending a request leaves the payload the table holds
   as it was: api.data has the same fields after the request as before, a
   field a placeholder of the url used included *)
C34_RequestKeepsPayload ==
    fn.op = "request" => fn.data = fn.before

(* C35: in every state local Search, Filter, Paginate and ChangeLimit
   reach, no data row is visible while the placeholder row is present *)
C35_PlaceholderHidesData ==
    HasDummy(rows) =>
        \A i \in 1..Len(rows) : ~rows[i].dummy => ~rows[i].visible

(* the data rows that are visible *)
VisibleRows == SelectSeq(rows, LAMBDA r : ~r.dummy /\ r.visible)

(* the row holds the keyword in the text of its cells, none excluded *)
HoldsKeyword(row, keyword) ==
    Contains(Join(TextContents(row, {}), Space), keyword)

(* the indices of page number page of paginate(totalRows, limit) *)
PageIndices(totalRows, limit, page) ==
    {i \in 0..(totalRows - 1) : i >= (page - 1) * limit /\ i < page * limit}

(* C36: in every settled state the local actions reach, the visible rows
   agree with the store: under a search that is not empty every visible
   data row matches it, and under a numeric limit every visible data row
   is a row of the page of the store *)
C36_VisibleRowsAgreeWithStore ==
    ~err =>
        /\ props.search # <<>> =>
              \A i \in 1..Len(VisibleRows) :
                  HoldsKeyword(VisibleRows[i], props.search)
        /\ props.limit # ALL =>
              \A i \in 1..Len(VisibleRows) :
                  VisibleRows[i].index \in
                      PageIndices(Len(DataRows(rows)), props.limit, props.page)

(* the page count of the specification's paginate for the data rows of the
   table under the limit of the store *)
LocalPageCount ==
    IF props.limit = ALL THEN 1
    ELSE PageCount(Len(DataRows(rows)), props.limit)

(* the step moved the page of the store by one, or left it at the end,
   and shows the page it moved to *)
PaginatedByOne ==
    /\ last'.as = "next" =>
          props'.page = IF props.page < LocalPageCount
                        THEN props.page + 1 ELSE props.page
    /\ last'.as = "previous" =>
          props'.page = IF props.page > 1
                        THEN props.page - 1 ELSE props.page
    /\ \A i \in 1..Len(rows') :
          ~rows'[i].dummy =>
             (rows'[i].visible <=>
                \/ props.limit = ALL
                \/ rows'[i].index \in
                      PageIndices(Len(DataRows(rows)), props.limit,
                                  props'.page))

(* C37: local Paginate(next) adds exactly 1 to the page of the store below
   the page count and leaves it on the last page, Paginate(previous) takes
   exactly 1 from it above 1 and leaves it on page 1; afterwards the
   visible data rows are exactly those whose index is in page `page` of
   paginate(total, limit), all of them when the limit is ALL *)
C37_PaginateStepsByOne ==
    [][(last'.op = "paginate" /\ last'.to = "local") => PaginatedByOne]_vars

(* C38: every value a ChangeLimit or a Paginate action writes to the page
   of the store, the writes in the middle of the action included, is an
   integer of at least 1 *)
C38_PageWritesAtLeastOne ==
    last.op \in {"limit", "paginate"} =>
        \A i \in 1..Len(notes) :
            notes[i].property = "page" => notes[i].props.page >= 1

(* the data rows of rs that are visible, each told by where it came from,
   its cells and its index *)
VisibleSet(rs) ==
    {<<rs[i].src, rs[i].cells, rs[i].index>> :
        i \in {j \in 1..Len(rs) : ~rs[j].dummy /\ rs[j].visible}}

(* C39: a click on a th changes the order of the rows and the sort markers
   alone: the store, the payload and the set of the visible rows are the
   same after the click as before, and no request is sent *)
C39_SortChangesOrderAlone ==
    [][last'.op = "sort" =>
         /\ props' = props
         /\ apiData' = apiData
         /\ VisibleSet(rows') = VisibleSet(rows)
         /\ Indexes(rows') = Indexes(rows)
         /\ Len(rows') = Len(rows)
         /\ inflight' = inflight
         /\ issued' = issued]_vars

(* a click that changed the order of the rows of a table that shows the
   first of two pages *)
C39_Witness ==
    /\ last.op = "sort"
    /\ ~err
    /\ props.limit # ALL
    /\ \E i \in 1..Len(rows) : ~rows[i].visible
    /\ \E i \in 1..Len(rows) : rows[i].visible
    /\ \E i, j \in 1..Len(rows) : i < j /\ rows[i].index > rows[j].index

(* the step is a remote ChangeLimit, Paginate or Search *)
RemoteAction ==
    last'.op \in {"limit", "paginate", "search"} /\ last'.to = "api"

(* the step applies the outcome of a request, an answer or a failure *)
Outcome == last'.op \in {"success", "error"}

(* C40: applying the outcome of a remote request, the initialization that
   follows it and applies the limit again included, sends no other
   request: a remote action that returns has sent exactly one request, no
   action sends more than one, and the outcome leaves one request fewer in
   flight *)
C40_OutcomeSendsNothing ==
    [][/\ Outcome =>
             /\ issued' = issued
             /\ inflight' = {r \in inflight : r.id # last'.req}
             /\ Cardinality(inflight') = Cardinality(inflight) - 1
       /\ RemoteAction =>
             /\ issued' <= issued + 1
             /\ ~err' => issued' = issued + 1]_vars

(* the one request of a remote action was answered, postInitialize applied
   the numeric limit of the store again, and nothing is in flight *)
C40_Witness ==
    /\ last.op = "success"
    /\ issued = 1
    /\ inflight = {}
    /\ props.limit # ALL
    /\ Len(rows) > 0

====
